---- MODULE Spec2Model ----
(***************************************************************************)
(* A model of the shizuku lexer and parser (crates/shizuku-parser/src).    *)
(*                                                                         *)
(* A character is a one-character string; characters that cannot be        *)
(* written in a module are named by their code point ("U+00E9").  The      *)
(* absent character (Rust's Option::None) is the string None.              *)
(* An EcoString is the sequence of its characters.                         *)
(***************************************************************************)
EXTENDS Integers, Sequences, FiniteSets, TLC

VARIABLES
    source,     \* the characters the caller's stream yields, in order
    lexer,      \* the Lexer struct: chr0, chr1, loc0, loc1, pending, stream position
    pc,         \* position of the caller / of Lexer::next: "idle" or "next"
    result,     \* the LexResult of the last finished next() call
    returned,   \* history: every LexResult returned so far, oldest first
    emitted,    \* history: every Spanned pushed by emit(), oldest first
    last,       \* history: what the last advance_token call did
    fsm,        \* the locals state, chr, new_state of the loop of consume_number_like
    source_tokens, \* the Spanned tokens handed to Parser::new, in order
    parser,     \* the Parser struct: token_stream (what is left of it), current_token
    ast         \* the Result of parse_program

vars == <<source, lexer, pc, result, returned, emitted, last,
          fsm, source_tokens, parser, ast>>

\* the variables of the lexer and of its caller
lexerVars == <<source, lexer, pc, result, returned, emitted, last>>

\* the variables of a state machine run on its own
fsmVars == <<fsm>>

\* the variables of the parser and of its caller
parserVars == <<source_tokens, parser, ast>>

-----------------------------------------------------------------------------
(* Characters *)

None == "None"

Lower == {"a","b","c","d","e","f","g","h","i","j","k","l","m",
          "n","o","p","q","r","s","t","u","v","w","x","y","z"}
Upper == {"A","B","C","D","E","F","G","H","I","J","K","L","M",
          "N","O","P","Q","R","S","T","U","V","W","X","Y","Z"}

\* char::is_ascii_digit
is_ascii_digit(c) == c \in {"0","1","2","3","4","5","6","7","8","9"}

\* char::is_ascii_hexdigit
is_ascii_hexdigit(c) ==
    \/ is_ascii_digit(c)
    \/ c \in {"a","b","c","d","e","f"}
    \/ c \in {"A","B","C","D","E","F"}

\* char::is_ascii_octdigit
is_ascii_octdigit(c) == c \in {"0","1","2","3","4","5","6","7"}

\* utils.rs is_whitespace: Pattern_White_Space
is_whitespace(c) ==
    c \in {"\t", "\n", "U+000B", "\f", "\r", " ",
           "U+0085", "U+200E", "U+200F", "U+2028", "U+2029"}

\* The non-ASCII characters of the model that unicode_xid classifies as
\* XID_Start (e-acute) and as XID_Continue (e-acute, combining acute accent).
XidStart == {"U+00E9"}
XidContinue == {"U+00E9", "U+0301"}

\* c > '\x7f'
NonAscii(c) ==
    c \in {"U+0085", "U+00E9", "U+0301", "U+200E", "U+200F", "U+2028", "U+2029"}

\* utils.rs is_id_start
is_id_start(c) ==
    \/ c \in Lower
    \/ c \in Upper
    \/ c = "_"
    \/ (NonAscii(c) /\ c \in XidStart)

\* utils.rs is_id_continue
is_id_continue(c) ==
    \/ c \in Lower
    \/ c \in Upper
    \/ is_ascii_digit(c)
    \/ c = "_"
    \/ (NonAscii(c) /\ c \in XidContinue)

\* char::len_utf8: the number of bytes of c in the source text
len_utf8(c) ==
    IF c \in {"U+0085", "U+00E9", "U+0301"} THEN 2
    ELSE IF c \in {"U+200E", "U+200F", "U+2028", "U+2029"} THEN 3
    ELSE 1

-----------------------------------------------------------------------------
(* The caller's stream: source.char_indices().map(|(i, c)| (i as u32, c)) *)

RECURSIVE ByteLen(_)
\* str::len of a sequence of characters
ByteLen(s) == IF s = <<>> THEN 0 ELSE len_utf8(Head(s)) + ByteLen(Tail(s))

\* the byte offset of the i-th character of the source (i from 1)
OffsetOf(i) == ByteLen(SubSeq(source, 1, i - 1))

\* the stream has an item left after yielding k items
StreamHas(k) == k < Len(source)

\* the (k+1)-th item of the stream: <<byte offset, character>>
StreamItem(k) == <<OffsetOf(k + 1), source[k + 1]>>

-----------------------------------------------------------------------------
(* The cursor *)

\* Lexer::consume whose end-of-input arm leaves loc1 where it is
consume_frozen_end(l) ==
    IF StreamHas(l.strm)
    THEN [l EXCEPT !.loc0 = l.loc1,
                   !.loc1 = StreamItem(l.strm)[1],
                   !.chr0 = l.chr1,
                   !.chr1 = StreamItem(l.strm)[2],
                   !.strm = l.strm + 1]
    ELSE [l EXCEPT !.loc0 = l.loc1,
                   !.chr0 = l.chr1,
                   !.chr1 = None]

\* Lexer::consume, on the lexer record l
consume(l) ==
    IF StreamHas(l.strm)
    THEN [l EXCEPT !.loc0 = l.loc1,
                   !.loc1 = StreamItem(l.strm)[1],
                   !.chr0 = l.chr1,
                   !.chr1 = StreamItem(l.strm)[2],
                   !.strm = l.strm + 1]
    ELSE [l EXCEPT !.loc0 = l.loc1,
                   !.loc1 = l.loc1 + 1,
                   !.chr0 = l.chr1,
                   !.chr1 = None]

\* Lexer::new with one `lexer.consume()` instead of two
new_single_consume ==
    consume([strm |-> 0, pending |-> <<>>, location |-> 0,
             chr0 |-> None, loc0 |-> 0, chr1 |-> None, loc1 |-> 0])

\* Lexer::new
new ==
    consume(consume([strm |-> 0, pending |-> <<>>, location |-> 0,
                     chr0 |-> None, loc0 |-> 0, chr1 |-> None, loc1 |-> 0]))

\* Lexer::get_pos
get_pos(l) == l.loc0

\* Lexer::emit
emit(l, spanned) == [l EXCEPT !.pending = Append(@, spanned)]

-----------------------------------------------------------------------------
(* The numeric-literal state machine (lexer/number.rs) *)

State == {"Start", "Sign", "Zero", "Int", "Dot", "Frac", "Exp", "ExpSign",
          "ExpInt", "Hex", "Oct", "Bin",
          "IntUnderscore", "ExpIntUnderscore", "FracUnderscore",
          "HexUnderscore", "OctUnderscore", "BinUnderscore",
          "End", "Error"}

\* the states from which whitespace or end of input ends the literal
EndStates == {"Zero", "Int", "Dot", "Frac", "ExpInt", "Hex", "Oct", "Bin"}

\* the match on the state, for a character that is neither None nor whitespace
transition_on_char(state, chr) ==
    CASE state = "Start" ->
            IF chr = "+" \/ chr = "-" THEN "Sign"
            ELSE IF chr = "0" THEN "Zero"
            ELSE IF is_ascii_digit(chr) THEN "Int"
            ELSE IF chr = "." THEN "Dot"
            ELSE "Error"
      [] state = "Sign" ->
            IF chr = "0" THEN "Zero"
            ELSE IF is_ascii_digit(chr) THEN "Int"
            ELSE IF chr = "." THEN "Dot"
            ELSE "Error"
      [] state = "Zero" ->
            IF chr \in {"x", "X"} THEN "Hex"
            ELSE IF chr \in {"o", "O"} THEN "Oct"
            ELSE IF chr \in {"b", "B"} THEN "Bin"
            ELSE IF chr = "." THEN "Dot"
            ELSE IF chr \in {"e", "E"} THEN "Exp"
            ELSE IF chr = "0" THEN "Zero"
            ELSE "Error"
      [] state = "Int" ->
            IF is_ascii_digit(chr) THEN "Int"
            ELSE IF chr = "." THEN "Dot"
            ELSE IF chr = "e" \/ chr = "E" THEN "Exp"
            ELSE IF chr = "_" THEN "IntUnderscore"
            ELSE "Error"
      [] state = "Dot" ->
            IF is_ascii_digit(chr) THEN "Frac" ELSE "Error"
      [] state = "Frac" ->
            IF is_ascii_digit(chr) THEN "Frac"
            ELSE IF chr = "e" \/ chr = "E" THEN "Exp"
            ELSE IF chr = "_" THEN "FracUnderscore"
            ELSE "Error"
      [] state = "Exp" ->
            IF chr = "+" \/ chr = "-" THEN "ExpSign"
            ELSE IF is_ascii_digit(chr) THEN "ExpInt"
            ELSE "Error"
      [] state = "ExpSign" ->
            IF is_ascii_digit(chr) THEN "ExpInt" ELSE "Error"
      [] state = "ExpInt" ->
            IF is_ascii_digit(chr) THEN "ExpInt"
            ELSE IF chr = "_" THEN "ExpIntUnderscore"
            ELSE "Error"
      [] state = "Hex" ->
            IF is_ascii_hexdigit(chr) THEN "Hex"
            ELSE IF chr = "_" THEN "HexUnderscore"
            ELSE "Error"
      [] state = "Oct" ->
            IF is_ascii_octdigit(chr) THEN "Oct"
            ELSE IF chr = "_" THEN "OctUnderscore"
            ELSE "Error"
      [] state = "Bin" ->
            IF chr = "0" \/ chr = "1" THEN "Bin"
            ELSE IF chr = "_" THEN "BinUnderscore"
            ELSE "Error"
      [] state = "IntUnderscore" ->
            IF is_ascii_digit(chr) THEN "Int" ELSE "Error"
      [] state = "FracUnderscore" ->
            IF is_ascii_digit(chr) THEN "Frac" ELSE "Error"
      [] state = "ExpIntUnderscore" ->
            IF is_ascii_digit(chr) THEN "ExpInt" ELSE "Error"
      [] state = "HexUnderscore" ->
            IF is_ascii_hexdigit(chr) THEN "Hex" ELSE "Error"
      [] state = "OctUnderscore" ->
            IF is_ascii_octdigit(chr) THEN "Oct" ELSE "Error"
      [] state = "BinUnderscore" ->
            IF chr = "0" \/ chr = "1" THEN "Bin" ELSE "Error"
      [] state \in {"End", "Error"} -> "Panic"

\* state_transition that lets a sign end an integer like whitespace does
state_transition_end_on_sign(state, chr) ==
    IF chr = None \/ is_whitespace(chr)
    THEN IF state \in EndStates THEN "End" ELSE "Error"
    ELSE IF state \in {"Int", "Zero"} /\ chr \in {"+", "-"} THEN "End"
    ELSE transition_on_char(state, chr)

\* state_transition that takes a digit after leading zeros as a decimal digit
state_transition_lenient_zero(state, chr) ==
    IF chr = None \/ is_whitespace(chr)
    THEN IF state \in EndStates THEN "End" ELSE "Error"
    ELSE IF state = "Zero" /\ is_ascii_digit(chr) /\ chr # "0" THEN "Int"
    ELSE transition_on_char(state, chr)

\* state_transition that lets a separator follow a separator
state_transition_doubled(state, chr) ==
    IF chr = None \/ is_whitespace(chr)
    THEN IF state \in EndStates THEN "End" ELSE "Error"
    ELSE IF state \in {"IntUnderscore", "FracUnderscore"} /\ chr = "_" THEN state
    ELSE transition_on_char(state, chr)

\* state_transition that lets whitespace or the end of input end a literal
\* right after a separator of its integer part
state_transition_end_after_separator(state, chr) ==
    IF chr = None \/ is_whitespace(chr)
    THEN IF state \in EndStates \cup {"IntUnderscore"} THEN "End" ELSE "Error"
    ELSE transition_on_char(state, chr)

\* state_transition that takes a separator for the first digit of an exponent
state_transition_exp_separator(state, chr) ==
    IF chr = None \/ is_whitespace(chr)
    THEN IF state \in EndStates THEN "End" ELSE "Error"
    ELSE IF state \in {"Exp", "ExpSign"} /\ chr = "_" THEN "ExpInt"
    ELSE transition_on_char(state, chr)

\* number.rs state_transition; "Panic" stands for the panic! of the last arm
state_transition(state, chr) ==
    IF chr = None \/ is_whitespace(chr)
    THEN IF state \in EndStates THEN "End" ELSE "Error"
    ELSE transition_on_char(state, chr)

-----------------------------------------------------------------------------
(* Tokens, spans and results *)

\* a Token without payload (punctuation, keyword, NewLine, EOF)
Tok(kind) == [kind |-> kind, base |-> "", has_exp |-> FALSE, value |-> <<>>]

\* Token::Int { base, value }
TokInt(base, value) ==
    [kind |-> "Int", base |-> base, has_exp |-> FALSE, value |-> value]

\* Token::Float { has_exp, value }
TokFloat(has_exp, value) ==
    [kind |-> "Float", base |-> "", has_exp |-> has_exp, value |-> value]

\* a Token whose payload is text: Ident, String, Comment, CommentDoc, Char
TokText(kind, value) ==
    [kind |-> kind, base |-> "", has_exp |-> FALSE, value |-> value]

\* Result::Ok of a scanner (v is a Spanned) or of a dispatch step (v is <<>>)
Ok(v) == [t |-> "Ok", v |-> v]

\* Result::Err(LexicalError { error, location: SrcSpan { start, end } })
Err(kind, tok, start, end) ==
    [t |-> "Err",
     v |-> [error |-> [kind |-> kind, tok |-> tok],
            location |-> [start |-> start, end |-> end]]]

\* a panic (expect, unwrap, unreachable!, debug_assert!) at the named site
Panic(site) == [t |-> "Panic", v |-> site]

-----------------------------------------------------------------------------
(* The literal scanners; each returns the lexer after the scan and the result *)

\* expect_loop that consumes one character whatever char_count is
expect_loop_once(l, char_count) ==
    IF char_count = 0 THEN [lx |-> l, out |-> Ok(<<>>)]
    ELSE IF l.chr0 = None THEN [lx |-> consume(l), out |-> Panic("consume_expect_token")]
    ELSE [lx |-> consume(l), out |-> Ok(<<>>)]

RECURSIVE expect_loop_greedy(_, _)
\* expect_loop that consumes one character more than char_count
expect_loop_greedy(l, char_count) ==
    IF char_count = -1 THEN [lx |-> l, out |-> Ok(<<>>)]
    ELSE IF l.chr0 = None THEN [lx |-> consume(l), out |-> Panic("consume_expect_token")]
    ELSE expect_loop_greedy(consume(l), char_count - 1)

RECURSIVE expect_loop(_, _)
\* the for loop of consume_expect_token: char_count times consume().expect(..)
expect_loop(l, char_count) ==
    IF char_count = 0 THEN [lx |-> l, out |-> Ok(<<>>)]
    ELSE IF l.chr0 = None THEN [lx |-> consume(l), out |-> Panic("consume_expect_token")]
    ELSE expect_loop(consume(l), char_count - 1)

\* Lexer::consume_expect_token
consume_expect_token(l, expected_token, char_count) ==
    LET start_pos == get_pos(l)
        r == expect_loop(l, char_count)
        end_pos == get_pos(r.lx)
    IN  IF r.out.t = "Panic" THEN r
        ELSE [lx |-> emit(r.lx, <<start_pos, expected_token, end_pos>>),
              out |-> Ok(<<>>)]

RECURSIVE comment_loop_past_newline(_, _)
\* comment_loop that also consumes the newline that ends the comment
comment_loop_past_newline(l, content) ==
    IF l.chr0 = None THEN [lx |-> l, content |-> content]
    ELSE IF l.chr0 = "\n" THEN [lx |-> consume(l), content |-> content]
    ELSE comment_loop_past_newline(consume(l), Append(content, l.chr0))

RECURSIVE comment_loop(_, _)
\* the content loop of consume_comment_or_doc
comment_loop(l, content) ==
    IF l.chr0 # "\n" /\ l.chr0 # None
    THEN comment_loop(consume(l), Append(content, l.chr0))
    ELSE [lx |-> l, content |-> content]

\* Lexer::consume_comment_or_doc
consume_comment_or_doc(l) ==
    IF l.chr0 # "/" \/ l.chr1 # "/"
    THEN [lx |-> l, out |-> Panic("consume_comment_or_doc")]
    ELSE LET l1 == consume(l)
             doc == (l1.chr1 = "/")
             l2 == IF doc THEN consume(consume(l1)) ELSE consume(l1)
             start_pos == get_pos(l2)
             r == comment_loop(l2, <<>>)
             end_pos == get_pos(r.lx)
             token == IF doc THEN TokText("CommentDoc", r.content)
                      ELSE TokText("Comment", r.content)
         IN  [lx |-> r.lx, out |-> Ok(<<start_pos, token, end_pos>>)]

\* Token::try_from_keywords: the keyword spelled by the text, or None
try_from_keywords(word) ==
    CASE word = <<"a","s">> -> "As"
      [] word = <<"c","o","n","s","t">> -> "Const"
      [] word = <<"f","n">> -> "Fn"
      [] word = <<"i","f">> -> "If"
      [] word = <<"e","l","s","e">> -> "Else"
      [] word = <<"a","n","d">> -> "And"
      [] word = <<"o","r">> -> "Or"
      [] word = <<"i","m","p","o","r","t">> -> "Import"
      [] word = <<"l","e","t">> -> "Let"
      [] word = <<"t","y","p","e">> -> "Type"
      [] word = <<"o","p","a","q","u","e">> -> "Opaque"
      [] word = <<"p","u","b">> -> "Pub"
      [] word = <<"s","t","r","u","c","t">> -> "Struct"
      [] word = <<"e","n","u","m">> -> "Enum"
      [] word = <<"b","r","e","a","k">> -> "Break"
      [] word = <<"c","o","n","t","i","n","u","e">> -> "Continue"
      [] word = <<"a","s","y","n","c">> -> "Async"
      [] word = <<"a","w","a","i","t">> -> "Await"
      [] word = <<"r","e","t","u","r","n">> -> "Return"
      [] word = <<"t","e","s","t">> -> "Test"
      [] OTHER -> None

RECURSIVE ident_loop(_, _)
\* the while-let loop of consume_ident_or_keyword
ident_loop(l, name) ==
    IF l.chr0 # None /\ is_id_continue(l.chr0)
    THEN ident_loop(consume(l), Append(name, l.chr0))
    ELSE [lx |-> l, name |-> name]

\* Lexer::consume_ident_or_keyword
consume_ident_or_keyword(l) ==
    IF l.chr0 = None \/ ~is_id_start(l.chr0)
    THEN [lx |-> l, out |-> Panic("consume_ident_or_keyword")]
    ELSE LET start == get_pos(l)
             r == ident_loop(consume(l), <<l.chr0>>)
             end == get_pos(r.lx)
             kw == try_from_keywords(r.name)
         IN  IF kw # None
             THEN [lx |-> r.lx, out |-> Ok(<<start, Tok(kw), end>>)]
             ELSE [lx |-> r.lx,
                   out |-> Ok(<<start, TokText("Ident", r.name), end>>)]

\* consume_char_literal without the arm for an immediate closing quote
consume_char_literal_no_empty(l) ==
    IF l.chr0 # "'"
    THEN [lx |-> l, out |-> Panic("consume_char_literal")]
    ELSE LET start == get_pos(l)
             l1 == consume(l)
         IN  IF l1.chr0 = None
             THEN [lx |-> l1,
                   out |-> Err("UnexpectedCharEnd", None, start, start + 1)]
             ELSE LET chr == l1.chr0
                      l2 == consume(l1)
                  IN  IF l2.chr0 # "'"
                      THEN [lx |-> l2,
                            out |-> Err("UnexpectedCharEnd", None, start, get_pos(l2))]
                      ELSE LET l3 == consume(l2)
                           IN  [lx |-> l3,
                                out |-> Ok(<<start, TokText("Char", <<chr>>),
                                             get_pos(l3)>>)]

\* Lexer::consume_char_literal
consume_char_literal(l) ==
    IF l.chr0 # "'"
    THEN [lx |-> l, out |-> Panic("consume_char_literal")]
    ELSE LET start == get_pos(l)
             l1 == consume(l)
         IN  IF l1.chr0 = "'"
             THEN LET l2 == consume(l1)
                  IN  [lx |-> l2,
                       out |-> Err("EmptyCharLiteral", None, start, get_pos(l2))]
             ELSE IF l1.chr0 = None
             THEN [lx |-> l1,
                   out |-> Err("UnexpectedCharEnd", None, start, start + 1)]
             ELSE LET chr == l1.chr0
                      l2 == consume(l1)
                  IN  IF l2.chr0 # "'"
                      THEN [lx |-> l2,
                            out |-> Err("UnexpectedCharEnd", None, start, get_pos(l2))]
                      ELSE LET l3 == consume(l2)
                           IN  [lx |-> l3,
                                out |-> Ok(<<start, TokText("Char", <<chr>>),
                                             get_pos(l3)>>)]

RECURSIVE string_loop(_, _)
\* the while-let loop of consume_string_literal
string_loop(l, value) ==
    IF l.chr0 # None /\ l.chr0 # "\""
    THEN string_loop(consume(l), Append(value, l.chr0))
    ELSE [lx |-> l, value |-> value]

\* Lexer::consume_string_literal
consume_string_literal(l) ==
    IF l.chr0 # "\""
    THEN [lx |-> l, out |-> Panic("consume_string_literal")]
    ELSE LET start == get_pos(l)
             r == string_loop(consume(l), <<>>)
         IN  IF r.lx.chr0 # "\""
             THEN [lx |-> r.lx,
                   out |-> Err("UnexpectedStringEnd", None, start, get_pos(r.lx))]
             ELSE LET l2 == consume(r.lx)
                  IN  [lx |-> l2,
                       out |-> Ok(<<start, TokText("String", r.value), get_pos(l2)>>)]

\* the characters of a text other than the digit-group separator
RECURSIVE strip_underscores(_)
strip_underscores(value) ==
    IF value = <<>> THEN <<>>
    ELSE IF Head(value) = "_" THEN strip_underscores(Tail(value))
    ELSE <<Head(value)>> \o strip_underscores(Tail(value))

\* number_token that stores the digits without their separators
number_token_stripped(state, value, start, end) ==
    CASE state = "Bin" -> Ok(<<start, TokInt("Binary", strip_underscores(value)), end>>)
      [] state = "Oct" -> Ok(<<start, TokInt("Octal", strip_underscores(value)), end>>)
      [] state \in {"Int", "Zero"} ->
            Ok(<<start, TokInt("Decimal", strip_underscores(value)), end>>)
      [] state = "Hex" ->
            Ok(<<start, TokInt("Hexadecimal", strip_underscores(value)), end>>)
      [] state = "ExpInt" -> Ok(<<start, TokFloat(TRUE, strip_underscores(value)), end>>)
      [] state \in {"Frac", "Dot"} ->
            Ok(<<start, TokFloat(FALSE, strip_underscores(value)), end>>)
      [] OTHER -> Panic("unreachable")

\* number_token that takes ExpInt for a float without exponent
number_token_no_exp(state, value, start, end) ==
    CASE state = "Bin" -> Ok(<<start, TokInt("Binary", value), end>>)
      [] state = "Oct" -> Ok(<<start, TokInt("Octal", value), end>>)
      [] state \in {"Int", "Zero"} -> Ok(<<start, TokInt("Decimal", value), end>>)
      [] state = "Hex" -> Ok(<<start, TokInt("Hexadecimal", value), end>>)
      [] state \in {"Frac", "Dot", "ExpInt"} -> Ok(<<start, TokFloat(FALSE, value), end>>)
      [] OTHER -> Panic("unreachable")

\* number_token whose `State::Frac | State::Dot` arm is `State::Frac` and
\* whose `State::Int | State::Zero` arm takes Dot as well
number_token_dot_as_int(state, value, start, end) ==
    CASE state = "Bin" -> Ok(<<start, TokInt("Binary", value), end>>)
      [] state = "Oct" -> Ok(<<start, TokInt("Octal", value), end>>)
      [] state \in {"Int", "Zero", "Dot"} ->
            Ok(<<start, TokInt("Decimal", value), end>>)
      [] state = "Hex" -> Ok(<<start, TokInt("Hexadecimal", value), end>>)
      [] state = "ExpInt" -> Ok(<<start, TokFloat(TRUE, value), end>>)
      [] state = "Frac" -> Ok(<<start, TokFloat(FALSE, value), end>>)
      [] OTHER -> Panic("unreachable")

\* the final match of consume_number_like: the token of the last state
number_token(state, value, start, end) ==
    CASE state = "Bin" -> Ok(<<start, TokInt("Binary", value), end>>)
      [] state = "Oct" -> Ok(<<start, TokInt("Octal", value), end>>)
      [] state \in {"Int", "Zero"} -> Ok(<<start, TokInt("Decimal", value), end>>)
      [] state = "Hex" -> Ok(<<start, TokInt("Hexadecimal", value), end>>)
      [] state = "ExpInt" -> Ok(<<start, TokFloat(TRUE, value), end>>)
      [] state \in {"Frac", "Dot"} -> Ok(<<start, TokFloat(FALSE, value), end>>)
      [] OTHER -> Panic("unreachable")

RECURSIVE number_loop(_, _, _, _, _)
\* the loop of consume_number_like and what follows it
number_loop(l, state, value, start, prev_chr) ==
    LET chr == l.chr0
        new_state == state_transition(state, chr)
    IN  CASE new_state = "Panic" ->
                [lx |-> l, out |-> Panic("state_transition")]
          [] new_state = "End" ->
                [lx |-> l, out |-> number_token(state, value, start, get_pos(l))]
          [] new_state = "Error" ->
                IF chr = None
                THEN IF prev_chr = None
                     THEN [lx |-> l, out |-> Panic("prev_chr.unwrap")]
                     ELSE [lx |-> l,
                           out |-> Err("IllegalLiteral", prev_chr, start, get_pos(l))]
                ELSE LET l1 == consume(l)
                     IN  [lx |-> l1,
                          out |-> Err("IllegalLiteral", chr, start, get_pos(l1))]
          [] OTHER ->
                number_loop(consume(l), new_state, Append(value, chr), start, chr)

\* consume_number_like that skips a sign before it starts the literal
consume_number_like_unsigned(l) ==
    IF l.chr0 = None
    THEN [lx |-> l, out |-> Panic("consume_number_like")]
    ELSE IF l.chr0 \in {"+", "-"}
    THEN number_loop(consume(l), "Sign", <<>>, get_pos(consume(l)), l.chr0)
    ELSE number_loop(l, "Start", <<>>, get_pos(l), None)

\* Lexer::consume_number_like
consume_number_like(l) ==
    IF l.chr0 = None
    THEN [lx |-> l, out |-> Panic("consume_number_like")]
    ELSE number_loop(l, "Start", <<>>, get_pos(l), None)

-----------------------------------------------------------------------------
(* The dispatch scanner *)

\* the single-character arms of _advance_token: the token of c, or None
single_char_token(c) ==
    CASE c = "(" -> "LParen"
      [] c = ")" -> "RParen"
      [] c = "[" -> "LBracket"
      [] c = "]" -> "RBracket"
      [] c = "{" -> "LBrace"
      [] c = "}" -> "RBrace"
      [] c = ":" -> "Colon"
      [] c = "@" -> "At"
      [] c = "%" -> "Percent"
      [] c = "," -> "Comma"
      [] c = "#" -> "Hash"
      [] c = ";" -> "Semicolon"
      [] c = "&" -> "Amper"
      [] c = "?" -> "Question"
      [] OTHER -> None

\* the sign guard without its `|| c == '.'`
next_chr_is_digit_only(l) == l.chr1 # None /\ is_ascii_digit(l.chr1)

\* the dot guard with the `|| c == '.'` of the sign guard
next_chr_is_digit_dotted(l) ==
    l.chr1 # None /\ (is_ascii_digit(l.chr1) \/ l.chr1 = ".")

\* Lexer::next_chr_is(|c| c.is_ascii_digit() || c == '.')
next_chr_is_digit_or_dot(l) ==
    l.chr1 # None /\ (is_ascii_digit(l.chr1) \/ l.chr1 = ".")

\* Lexer::next_chr_is(|c| c.is_ascii_digit())
next_chr_is_digit(l) == l.chr1 # None /\ is_ascii_digit(l.chr1)

\* `let x = self.scanner()?; self.emit(x);`
emit_scanned(r) ==
    IF r.out.t = "Ok"
    THEN [lx |-> emit(r.lx, r.out.v), out |-> Ok(<<>>)]
    ELSE r

\* dispatch_arm whose numeric arm is the catch-all arm
dispatch_arm_no_fallback(l) ==
    LET chr == l.chr0
    IN  IF single_char_token(chr) # None THEN "single"
        ELSE IF chr = "+" /\ ~next_chr_is_digit_or_dot(l) THEN "plus"
        ELSE IF chr = "-" /\ ~next_chr_is_digit_or_dot(l) THEN "minus"
        ELSE IF chr = "=" THEN "equal"
        ELSE IF chr = "!" THEN "exclamation"
        ELSE IF chr = "|" THEN "pipe"
        ELSE IF chr = "<" THEN "larrow"
        ELSE IF chr = ">" THEN "rarrow"
        ELSE IF chr = "." /\ ~next_chr_is_digit(l) THEN "dot"
        ELSE IF chr = "/" THEN "slash"
        ELSE IF chr = "\"" THEN "string"
        ELSE IF chr = "'" THEN "char"
        ELSE IF is_id_start(chr) THEN "ident"
        ELSE "number"

\* the arm of the match in _advance_token that the current character takes
dispatch_arm(l) ==
    LET chr == l.chr0
    IN  IF single_char_token(chr) # None THEN "single"
        ELSE IF chr = "+" /\ ~next_chr_is_digit_or_dot(l) THEN "plus"
        ELSE IF chr = "-" /\ ~next_chr_is_digit_or_dot(l) THEN "minus"
        ELSE IF chr = "=" THEN "equal"
        ELSE IF chr = "!" THEN "exclamation"
        ELSE IF chr = "|" THEN "pipe"
        ELSE IF chr = "<" THEN "larrow"
        ELSE IF chr = ">" THEN "rarrow"
        ELSE IF chr = "." /\ ~next_chr_is_digit(l) THEN "dot"
        ELSE IF chr = "/" THEN "slash"
        ELSE IF chr = "\"" THEN "string"
        ELSE IF chr = "'" THEN "char"
        ELSE IF is_id_start(chr) THEN "ident"
        ELSE IF is_ascii_digit(chr) \/ chr \in {".", "-", "+"} THEN "number"
        ELSE "unrecognized"

\* Lexer::_advance_token
_advance_token(l) ==
    LET chr == l.chr0
        arm == dispatch_arm(l)
    IN  IF chr = None THEN [lx |-> l, out |-> Panic("_advance_token")]
        ELSE CASE arm = "single" ->
                    consume_expect_token(l, Tok(single_char_token(chr)), 1)
               [] arm = "plus" -> consume_expect_token(l, Tok("Plus"), 1)
               [] arm = "minus" ->
                    IF l.chr1 = ">"
                    THEN consume_expect_token(l, Tok("MinusRArrow"), 2)
                    ELSE consume_expect_token(l, Tok("Minus"), 1)
               [] arm = "equal" ->
                    IF l.chr1 = "="
                    THEN consume_expect_token(l, Tok("Equal2"), 2)
                    ELSE consume_expect_token(l, Tok("Equal"), 1)
               [] arm = "exclamation" ->
                    IF l.chr1 = "="
                    THEN consume_expect_token(l, Tok("ExclamationEqual"), 2)
                    ELSE consume_expect_token(l, Tok("Exclamation"), 1)
               [] arm = "pipe" ->
                    IF l.chr1 = ">"
                    THEN consume_expect_token(l, Tok("PipeRArrow"), 2)
                    ELSE consume_expect_token(l, Tok("Pipe"), 1)
               [] arm = "larrow" ->
                    IF l.chr1 = "="
                    THEN consume_expect_token(l, Tok("LArrowEqual"), 2)
                    ELSE IF l.chr1 = "-"
                    THEN consume_expect_token(l, Tok("LArrowMinus"), 2)
                    ELSE consume_expect_token(l, Tok("LArrow"), 1)
               [] arm = "rarrow" ->
                    IF l.chr1 = "="
                    THEN consume_expect_token(l, Tok("RArrowEqual"), 2)
                    ELSE consume_expect_token(l, Tok("RArrow"), 1)
               [] arm = "dot" ->
                    IF l.chr1 = "."
                    THEN consume_expect_token(l, Tok("Dot2"), 2)
                    ELSE consume_expect_token(l, Tok("Dot"), 1)
               [] arm = "slash" ->
                    IF l.chr1 = "/"
                    THEN emit_scanned(consume_comment_or_doc(l))
                    ELSE consume_expect_token(l, Tok("Slash"), 1)
               [] arm = "string" -> emit_scanned(consume_string_literal(l))
               [] arm = "char" -> emit_scanned(consume_char_literal(l))
               [] arm = "ident" -> emit_scanned(consume_ident_or_keyword(l))
               [] arm = "number" -> emit_scanned(consume_number_like(l))
               [] arm = "unrecognized" ->
                    [lx |-> l,
                     out |-> Err("UnrecognizedToken", chr, get_pos(l), get_pos(l))]

RECURSIVE skip_whitespace(_)
\* the while-let loop of advance_token: whitespace is consumed, '\n' is emitted
skip_whitespace(l) ==
    IF l.chr0 # None /\ is_whitespace(l.chr0)
    THEN IF l.chr0 = "\n"
         THEN LET l1 == consume(l)
              IN  skip_whitespace(emit(l1, <<get_pos(l), Tok("NewLine"), get_pos(l1)>>))
         ELSE skip_whitespace(consume(l))
    ELSE l

\* advance_token whose UnrecognizedToken error consumes the character
advance_token_skipping(l) ==
    LET l1 == skip_whitespace(l)
        r == _advance_token(l1)
    IN  IF l1.chr0 # None
        THEN IF r.out.t = "Err" /\ r.out.v.error.kind = "UnrecognizedToken"
             THEN [lx |-> consume(r.lx), out |-> r.out]
             ELSE r
        ELSE [lx |-> emit(l1, <<get_pos(l1), Tok("EOF"), get_pos(l1)>>),
              out |-> Ok(<<>>)]

\* advance_token that consumes once more each time it finds the end of input
advance_token_eof_consumes(l) ==
    LET l1 == skip_whitespace(l)
    IN  IF l1.chr0 # None
        THEN _advance_token(l1)
        ELSE [lx |-> emit(consume(l1), <<get_pos(l1), Tok("EOF"), get_pos(l1)>>),
              out |-> Ok(<<>>)]

\* advance_token that emits nothing at end of input
advance_token_silent_eof(l) ==
    LET l1 == skip_whitespace(l)
    IN  IF l1.chr0 # None
        THEN _advance_token(l1)
        ELSE [lx |-> l1, out |-> Ok(<<>>)]

\* Lexer::advance_token
advance_token(l) ==
    LET l1 == skip_whitespace(l)
    IN  IF l1.chr0 # None
        THEN _advance_token(l1)
        ELSE [lx |-> emit(l1, <<get_pos(l1), Tok("EOF"), get_pos(l1)>>),
              out |-> Ok(<<>>)]

-----------------------------------------------------------------------------
(* The caller and Lexer::next *)

\* the result is the EOF token
IsEof(r) == r.t = "Ok" /\ r.v[2].kind = "EOF"

\* the result is a lexical error
IsErr(r) == r.t = "Err"

\* how many more next() calls the caller makes after it has seen EOF
ExtraCalls == 1

\* the caller makes at most this many next() calls
MaxCalls == Len(source) + 1 + ExtraCalls

\* no state machine is run on its own
NoFsm == fsm = [state |-> "Start", chr |-> None, new_state |-> None]

\* no parser is built
NoParser ==
    /\ source_tokens = <<>>
    /\ parser = [token_stream |-> <<>>, current_token |-> <<>>]
    /\ ast = [t |-> "None", v |-> <<>>]

\* a lexer freshly built over a source drawn from the set S
LexerOver(S) ==
    /\ source \in S
    /\ lexer = new
    /\ pc = "idle"
    /\ result = [t |-> "None", v |-> <<>>]
    /\ returned = <<>>
    /\ emitted = <<>>
    /\ last = [arm |-> "None", at |-> 0, out |-> [t |-> "None", v |-> <<>>]]

\* the starting state over a source drawn from the set S
InitOver(S) == LexerOver(S) /\ NoFsm /\ NoParser

\* the caller calls next()
CallNext ==
    /\ pc = "idle"
    /\ Len(returned) < MaxCalls
    /\ Len(SelectSeq(returned, IsEof)) <= ExtraCalls
    /\ pc' = "next"
    /\ UNCHANGED <<source, lexer, result, returned, emitted, last>>
    /\ UNCHANGED <<fsmVars, parserVars>>

\* AdvanceToken with `loop` in place of `while self.pending.is_empty()`: the
\* dispatch may run again while tokens are pending
AdvanceTokenEager ==
    /\ pc = "next"
    /\ LET r == advance_token(lexer)
           l1 == skip_whitespace(lexer)
       IN  /\ lexer' = r.lx
           /\ emitted' = emitted \o SubSeq(r.lx.pending, Len(lexer.pending) + 1,
                                           Len(r.lx.pending))
           /\ last' = [arm |-> IF l1.chr0 = None THEN "eof" ELSE dispatch_arm(l1),
                       at |-> get_pos(l1), out |-> r.out]
           /\ IF r.out.t = "Ok"
              THEN pc' = "next" /\ UNCHANGED <<result, returned>>
              ELSE /\ pc' = IF r.out.t = "Panic" THEN "panicked" ELSE "idle"
                   /\ result' = r.out
                   /\ returned' = Append(returned, r.out)
    /\ UNCHANGED source
    /\ UNCHANGED <<fsmVars, parserVars>>

\* one turn of `while self.pending.is_empty() { self.advance_token()?; }`
AdvanceToken ==
    /\ pc = "next"
    /\ lexer.pending = <<>>
    /\ LET r == advance_token(lexer)
           l1 == skip_whitespace(lexer)
       IN  /\ lexer' = r.lx
           /\ emitted' = emitted \o r.lx.pending
           /\ last' = [arm |-> IF l1.chr0 = None THEN "eof" ELSE dispatch_arm(l1),
                       at |-> get_pos(l1), out |-> r.out]
           /\ IF r.out.t = "Ok"
              THEN pc' = "next" /\ UNCHANGED <<result, returned>>
              ELSE /\ pc' = IF r.out.t = "Panic" THEN "panicked" ELSE "idle"
                   /\ result' = r.out
                   /\ returned' = Append(returned, r.out)
    /\ UNCHANGED source
    /\ UNCHANGED <<fsmVars, parserVars>>

\* ReturnPending with `self.pending.pop()`: the newest token is returned
ReturnPendingNewest ==
    /\ pc = "next"
    /\ lexer.pending # <<>>
    /\ result' = Ok(lexer.pending[Len(lexer.pending)])
    /\ returned' = Append(returned, Ok(lexer.pending[Len(lexer.pending)]))
    /\ lexer' = [lexer EXCEPT !.pending = SubSeq(@, 1, Len(@) - 1)]
    /\ pc' = "idle"
    /\ UNCHANGED <<source, emitted, last>>
    /\ UNCHANGED <<fsmVars, parserVars>>

\* `Ok(self.pending.remove(0))`
ReturnPending ==
    /\ pc = "next"
    /\ lexer.pending # <<>>
    /\ result' = Ok(Head(lexer.pending))
    /\ returned' = Append(returned, Ok(Head(lexer.pending)))
    /\ lexer' = [lexer EXCEPT !.pending = Tail(@)]
    /\ pc' = "idle"
    /\ UNCHANGED <<source, emitted, last>>
    /\ UNCHANGED <<fsmVars, parserVars>>

Next == CallNext \/ AdvanceToken \/ ReturnPending

-----------------------------------------------------------------------------
(* Sources *)

\* every sequence over the alphabet A of length at most n
Strings(A, n) == UNION {[1..k -> A] : k \in 0..n}

\* the longest source over the wide alphabets
MaxLen == 4

\* the longest source over the narrow alphabet of digits, '_' and '.'
MaxDeepLen == 7

\* characters of the dispatch paths: identifier, digit, sign, slash, newline,
\* blank, unrecognized character, two-byte identifier character
Alphabet == {"a", "1", "-", "/", "\n", " ", "$", "U+00E9"}

\* numeric literals: decimal digits, separator, dot, exponent, sign, blank
NumDecimal == {"0", "1", "_", ".", "e", "-", " "}

\* numeric literals: lower-case radix markers, digits within and beyond a radix
NumRadix == {"0", "1", "8", "b", "o", "x", "_"}

\* numeric literals: upper-case markers, plus sign, three-byte whitespace
NumUpper == {"0", "7", "B", "O", "X", "E", "+", "U+2028"}

\* digit groups in the integer and the fraction part
NumDeep == {"1", "_", "."}

Init == InitOver(Strings(Alphabet, MaxLen))

Spec == Init /\ [][Next]_vars

\* the longest source of the specification with fairness
LiveLen == 2

\* identifier, newline, digit, unrecognized character
LiveAlphabet == {"a", "\n", "1", "$"}

InitLive == InitOver(Strings(LiveAlphabet, LiveLen))

\* the caller keeps calling and next() keeps running: a step that stays
\* possible is eventually taken
FairSpec == InitLive /\ [][Next]_vars /\ WF_vars(Next)

InitNum ==
    InitOver(Strings(NumDecimal, MaxLen) \cup Strings(NumRadix, MaxLen)
             \cup Strings(NumUpper, MaxLen) \cup Strings(NumDeep, MaxDeepLen))

SpecNum == InitNum /\ [][Next]_vars

-----------------------------------------------------------------------------
(* Helpers of the properties *)

\* the result is a token
IsOk(r) == r.t = "Ok"

\* the tokens returned so far, oldest first
OkReturned == SelectSeq(returned, IsOk)

\* the offset is the byte offset of a character of the source or its length
IsBoundary(off) == \E i \in 1..(Len(source) + 1) : OffsetOf(i) = off

\* the index of the character at a byte offset (Len(source) + 1 at the end)
IndexAt(off) == CHOOSE i \in 1..(Len(source) + 1) : OffsetOf(i) = off

\* source[start..end] by byte offsets, both on character boundaries
SourceSlice(start, end) == SubSeq(source, IndexAt(start), IndexAt(end) - 1)

\* the spelling of a token without payload
Spelling(kind) ==
    CASE kind = "LParen" -> <<"(">>
      [] kind = "RParen" -> <<")">>
      [] kind = "LBracket" -> <<"[">>
      [] kind = "RBracket" -> <<"]">>
      [] kind = "LBrace" -> <<"{">>
      [] kind = "RBrace" -> <<"}">>
      [] kind = "Colon" -> <<":">>
      [] kind = "At" -> <<"@">>
      [] kind = "Percent" -> <<"%">>
      [] kind = "Comma" -> <<",">>
      [] kind = "Hash" -> <<"#">>
      [] kind = "Semicolon" -> <<";">>
      [] kind = "Amper" -> <<"&">>
      [] kind = "Question" -> <<"?">>
      [] kind = "Plus" -> <<"+">>
      [] kind = "Minus" -> <<"-">>
      [] kind = "MinusRArrow" -> <<"-", ">">>
      [] kind = "Equal" -> <<"=">>
      [] kind = "Equal2" -> <<"=", "=">>
      [] kind = "Exclamation" -> <<"!">>
      [] kind = "ExclamationEqual" -> <<"!", "=">>
      [] kind = "Pipe" -> <<"|">>
      [] kind = "PipeRArrow" -> <<"|", ">">>
      [] kind = "LArrow" -> <<"<">>
      [] kind = "LArrowEqual" -> <<"<", "=">>
      [] kind = "LArrowMinus" -> <<"<", "-">>
      [] kind = "RArrow" -> <<">">>
      [] kind = "RArrowEqual" -> <<">", "=">>
      [] kind = "Dot" -> <<".">>
      [] kind = "Dot2" -> <<".", ".">>
      [] kind = "Slash" -> <<"/">>
      [] kind = "NewLine" -> <<"\n">>
      [] kind = "EOF" -> <<>>
      [] kind = "As" -> <<"a","s">>
      [] kind = "Const" -> <<"c","o","n","s","t">>
      [] kind = "Fn" -> <<"f","n">>
      [] kind = "If" -> <<"i","f">>
      [] kind = "Else" -> <<"e","l","s","e">>
      [] kind = "And" -> <<"a","n","d">>
      [] kind = "Or" -> <<"o","r">>
      [] kind = "Import" -> <<"i","m","p","o","r","t">>
      [] kind = "Let" -> <<"l","e","t">>
      [] kind = "Type" -> <<"t","y","p","e">>
      [] kind = "Opaque" -> <<"o","p","a","q","u","e">>
      [] kind = "Pub" -> <<"p","u","b">>
      [] kind = "Struct" -> <<"s","t","r","u","c","t">>
      [] kind = "Enum" -> <<"e","n","u","m">>
      [] kind = "Break" -> <<"b","r","e","a","k">>
      [] kind = "Continue" -> <<"c","o","n","t","i","n","u","e">>
      [] kind = "Async" -> <<"a","s","y","n","c">>
      [] kind = "Await" -> <<"a","w","a","i","t">>
      [] kind = "Return" -> <<"r","e","t","u","r","n">>
      [] kind = "Test" -> <<"t","e","s","t">>

\* the source text a token stands for: the payload of an identifier, a number
\* or a comment, the quoted payload of a string or a character, else the spelling
LiteralText(tok) ==
    CASE tok.kind \in {"Ident", "Int", "Float", "Comment", "CommentDoc"} -> tok.value
      [] tok.kind = "String" -> <<"\"">> \o tok.value \o <<"\"">>
      [] tok.kind = "Char" -> <<"'">> \o tok.value \o <<"'">>
      [] OTHER -> Spelling(tok.kind)

\* the span of a Spanned lies on character boundaries and covers its text
SpanIsText(sp) ==
    /\ sp[1] <= sp[3]
    /\ IsBoundary(sp[1])
    /\ IsBoundary(sp[3])
    /\ SourceSlice(sp[1], sp[3]) = LiteralText(sp[2])

\* every character of the source is one byte wide
OneByteSource == \A i \in 1..Len(source) : len_utf8(source[i]) = 1

-----------------------------------------------------------------------------
(* C1: the tokens returned by next() are the tokens emitted into the pending
   queue, in the order of their emission, and their start offsets never
   decrease. *)
C1_ReturnedInSourceOrder ==
    /\ Len(OkReturned) <= Len(emitted)
    /\ \A i \in 1..Len(OkReturned) : OkReturned[i].v = emitted[i]
    /\ \A i \in 1..(Len(OkReturned) - 1) :
          OkReturned[i].v[1] <= OkReturned[i + 1].v[1]

\* two tokens of one dispatch step have been returned and a third one waits
C1_Witness ==
    /\ pc = "idle"
    /\ Len(lexer.pending) >= 1
    /\ Len(returned) = 2
    /\ Len(OkReturned) = 2
    /\ OkReturned[1].v[1] < OkReturned[2].v[1]

-----------------------------------------------------------------------------
(* C2: for every token returned by next(), also over a source with characters
   wider than one byte and for a token that ends at the end of input, start and
   end are the byte offsets of the first character of its text and just past
   its last character: source[start..end] is the token's text.  (EOF, which has
   no text, is left to C3.) *)
C2_SpanIsSourceSlice ==
    \A i \in 1..Len(OkReturned) :
        OkReturned[i].v[2].kind # "EOF" => SpanIsText(OkReturned[i].v)

-----------------------------------------------------------------------------
(* C3: over a source of one-byte characters that lexes without error, the
   empty source included, the EOF token is returned with start = end = the
   length of the source. *)
C3_EofAtSourceLength ==
    \A i \in 1..Len(returned) :
        (/\ OneByteSource
         /\ \A j \in 1..i : ~IsErr(returned[j])
         /\ IsEof(returned[i]))
        => (returned[i].v[1] = Len(source) /\ returned[i].v[3] = Len(source))

-----------------------------------------------------------------------------
(* C4: over every finite source each next() call terminates, and a caller
   that keeps calling next() eventually receives the EOF token or a lexical
   error. *)
C4_NextTerminatesAndEnds ==
    /\ (pc = "next") ~> (pc = "idle")
    /\ <>(\E i \in 1..Len(returned) : IsEof(returned[i]) \/ IsErr(returned[i]))

\* the caller has received tokens and then the EOF token
C4_Witness ==
    /\ pc = "idle"
    /\ Len(returned) = 3
    /\ IsEof(returned[Len(returned)])
    /\ \A i \in 1..(Len(returned) - 1) : IsOk(returned[i]) /\ ~IsEof(returned[i])

-----------------------------------------------------------------------------
(* Helpers of the properties of numeric literals *)

\* the text of a literal without its sign
Unsigned(value) ==
    IF value # <<>> /\ value[1] \in {"+", "-"} THEN Tail(value) ELSE value

\* the radix that the prefix of an unsigned literal text announces
PrefixBase(text) ==
    IF Len(text) >= 2 /\ text[1] = "0" /\ text[2] \in {"b", "B"} THEN "Binary"
    ELSE IF Len(text) >= 2 /\ text[1] = "0" /\ text[2] \in {"o", "O"} THEN "Octal"
    ELSE IF Len(text) >= 2 /\ text[1] = "0" /\ text[2] \in {"x", "X"} THEN "Hexadecimal"
    ELSE "Decimal"

\* the returned tokens that are numbers
IsNumber(r) == r.t = "Ok" /\ r.v[2].kind \in {"Int", "Float"}
NumbersReturned == SelectSeq(returned, IsNumber)

-----------------------------------------------------------------------------
(* C5: the radix tag of every accepted integer literal matches the prefix of
   its text: after an optional sign, 0b/0B is Binary, 0o/0O is Octal, 0x/0X
   is Hexadecimal, and a text with none of these prefixes is Decimal. *)
C5_RadixMatchesPrefix ==
    \A i \in 1..Len(NumbersReturned) :
        LET tok == NumbersReturned[i].v[2]
        IN  tok.kind = "Int" => tok.base = PrefixBase(Unsigned(tok.value))

-----------------------------------------------------------------------------
(* C6: the value of every accepted Int or Float token is exactly the source
   slice [start, end): sign, radix prefix, dot, exponent and every underscore
   are kept and nothing is added. *)
C6_NumberValueIsSlice ==
    \A i \in 1..Len(NumbersReturned) : SpanIsText(NumbersReturned[i].v)

\* a float with a separator in the integer part and in the fraction part
C6_Witness ==
    /\ Len(returned) = 1
    /\ result.t = "Ok"
    /\ result.v = <<0, TokFloat(FALSE, <<"1", "_", "1", ".", "1", "_", "1">>), 7>>

-----------------------------------------------------------------------------
(* C7: has_exp of every accepted Float token is true exactly when 'e' or 'E'
   occurs in the token's text. *)
C7_HasExpIffMarker ==
    \A i \in 1..Len(NumbersReturned) :
        LET tok == NumbersReturned[i].v[2]
        IN  tok.kind = "Float" =>
              (tok.has_exp <=> \E k \in 1..Len(tok.value) : tok.value[k] \in {"e", "E"})

\* a float with a signed exponent
C7_Witness ==
    /\ Len(returned) = 1
    /\ result.t = "Ok"
    /\ result.v = <<0, TokFloat(TRUE, <<"1", "e", "-", "1">>), 4>>

-----------------------------------------------------------------------------
(* Helpers of the properties of one scan of a numeric literal: the text that
   the last dispatch found at its position, read independently of the state
   machine. *)

\* the source from the position of the last dispatch
TextAtDispatch == SubSeq(source, IndexAt(last.at), Len(source))

\* the character of a text at an index, None past its end
CharAt(text, i) == IF i >= 1 /\ i <= Len(text) THEN text[i] ELSE None

\* the width of the sign of a text
SignLen(text) == IF CharAt(text, 1) \in {"+", "-"} THEN 1 ELSE 0

\* the first index at or after i whose character is not in S
RECURSIVE RunEnd(_, _, _)
RunEnd(text, i, S) ==
    IF CharAt(text, i) \in S THEN RunEnd(text, i + 1, S) ELSE i

DecDigits == {"0", "1", "2", "3", "4", "5", "6", "7", "8", "9"}

\* the index after the digit groups D+ ('_' D+)* that start at i, 0 if no
\* digit is at i
RECURSIVE GroupsEnd(_, _)
GroupsEnd(text, i) ==
    LET j == RunEnd(text, i, DecDigits)
    IN  IF j = i THEN 0
        ELSE IF CharAt(text, j) = "_" /\ CharAt(text, j + 1) \in DecDigits
             THEN GroupsEnd(text, j + 1)
             ELSE j

\* the index after the integer part: a run of zeros, or digit groups that
\* start with a digit 1-9
IntPartEnd(text) ==
    LET i == SignLen(text) + 1
    IN  IF CharAt(text, i) = "0" THEN RunEnd(text, i, {"0"}) ELSE GroupsEnd(text, i)

\* the index after the integer part and the fraction part if there is one
MantissaEnd(text) ==
    LET ip == IntPartEnd(text)
    IN  IF ip # 0 /\ CharAt(text, ip) = "." /\ GroupsEnd(text, ip + 1) # 0
        THEN GroupsEnd(text, ip + 1)
        ELSE ip

\* the last dispatch scanned a number and failed on tok, n characters in
FailsAt(tok, n) ==
    /\ last.out.t = "Err"
    /\ last.out.v = [error |-> [kind |-> "IllegalLiteral", tok |-> tok],
                     location |-> [start |-> last.at, end |-> last.at + n]]

\* the last dispatch emitted the token tok for the first n characters
Accepts(tok, n) ==
    /\ last.out.t = "Ok"
    /\ emitted # <<>>
    /\ emitted[Len(emitted)] = <<last.at, tok, last.at + n>>

-----------------------------------------------------------------------------
(* C8: an optional sign and one or more '0' followed by whitespace or the end
   of input is Int(Decimal); one or more leading '0' followed by a digit 1-9
   fails with IllegalLiteral on that digit, the span running from the start of
   the literal to just past the digit. *)
C8_LeadingZeroRule ==
    last.arm = "number" =>
        LET text == TextAtDispatch
            z == RunEnd(text, SignLen(text) + 1, {"0"})
            after == CharAt(text, z)
        IN  z > SignLen(text) + 1 =>
              /\ (after = None \/ is_whitespace(after)) =>
                    Accepts(TokInt("Decimal", SubSeq(text, 1, z - 1)), z - 1)
              /\ after \in (DecDigits \ {"0"}) => FailsAt(after, z)

\* "007": the scan fails on '7' with the span [0, 3)
C8_Witness ==
    /\ source = <<"0", "0", "7">>
    /\ last.arm = "number"
    /\ FailsAt("7", 3)

-----------------------------------------------------------------------------
(* Helpers of C9 *)

\* chr is a digit of the radix
IsDigitOf(base, chr) ==
    CASE base = "Binary" -> chr \in {"0", "1"}
      [] base = "Octal" -> is_ascii_octdigit(chr)
      [] base = "Hexadecimal" -> is_ascii_hexdigit(chr)
      [] OTHER -> is_ascii_digit(chr)

(* C9: in every accepted numeric literal each '_' stands strictly between two
   digits of the literal's radix: never first, last or doubled, never next to
   a sign, a radix marker, a dot or an exponent marker. *)
C9_UnderscoreBetweenDigits ==
    \A i \in 1..Len(NumbersReturned) :
        LET tok == NumbersReturned[i].v[2]
            radix == IF tok.kind = "Int" THEN tok.base ELSE "Decimal"
        IN  \A k \in 1..Len(tok.value) :
              tok.value[k] = "_" =>
                /\ IsDigitOf(radix, CharAt(tok.value, k - 1))
                /\ IsDigitOf(radix, CharAt(tok.value, k + 1))

-----------------------------------------------------------------------------
(* C10: a '_' right after a lone leading zero, after an exponent marker or
   after another '_', or a '_' that is the last character of the input, fails
   with IllegalLiteral on '_', the span running from the start of the literal
   to just past that '_'; a literal whose '_' all stand between two decimal
   digits of the integer or fraction part is accepted with the '_' kept in
   its value. *)
C10_UnderscoreRule ==
    last.arm = "number" =>
        LET text == TextAtDispatch
            s == SignLen(text)
            m == MantissaEnd(text)
            lit == SubSeq(text, 1, m - 1)
        IN  /\ (CharAt(text, s + 1) = "0" /\ CharAt(text, s + 2) = "_") =>
                  FailsAt("_", s + 2)
            /\ (m # 0 /\ CharAt(text, m) \in {"e", "E"} /\ CharAt(text, m + 1) = "_") =>
                  FailsAt("_", m + 1)
            /\ (m # 0 /\ CharAt(text, s + 1) # "0" /\ CharAt(text, m) = "_"
                      /\ CharAt(text, m + 1) = "_") =>
                  FailsAt("_", m + 1)
            /\ (m # 0 /\ CharAt(text, s + 1) # "0" /\ CharAt(text, m) = "_"
                      /\ m = Len(text)) =>
                  FailsAt("_", m)
            /\ (m # 0 /\ (CharAt(text, m) = None \/ is_whitespace(CharAt(text, m)))
                      /\ \E k \in 1..Len(lit) : lit[k] = "_") =>
                  Accepts(IF \E k \in 1..Len(lit) : lit[k] = "."
                          THEN TokFloat(FALSE, lit)
                          ELSE TokInt("Decimal", lit), m - 1)

\* "1__1": the scan fails on the second '_' with the span [0, 3)
C10_Witness ==
    /\ source = <<"1", "_", "_", "1">>
    /\ last.arm = "number"
    /\ FailsAt("_", 3)

-----------------------------------------------------------------------------
(* Sources of the punctuation arms of the dispatch *)

\* signs and dots before a digit, a dot, '>', a letter, a blank, the end
Signs == {"+", "-", ".", ">", "1", "a", " "}

\* the longest source over the alphabet of the single-character tokens
MaxPunctLen == 2

\* the single-character tokens, and a three-byte whitespace character
Singles == {"(", ")", "[", "]", "{", "}", ":", "@", "%", ",", "#", ";", "&", "?",
            "U+2028"}

\* the characters that start or complete a two-character token, and a blank
Doubles == {"=", "!", "|", "<", ">", "-", " "}

\* characters that start no token: dollar, star, backslash, a combining mark
\* (identifier-continue only); and a letter, a blank, a newline around them
Strange == {"$", "*", "\\", "U+0301", "a", " ", "\n"}

InitPunct ==
    InitOver(Strings(Signs, MaxLen) \cup Strings(Doubles, MaxLen)
             \cup Strings(Strange, MaxLen) \cup Strings(Singles, MaxPunctLen))

SpecPunct == InitPunct /\ [][Next]_vars

\* a dispatch step has run and found a character (not the end of input)
Dispatched == last.out.t # "None" /\ last.arm # "eof"

\* the last dispatch handed the text to the numeric scanner: it emitted a
\* number that starts at the dispatch position with the character c, or failed
\* with IllegalLiteral on a span that starts there
ScansNumberFrom(c) ==
    \/ /\ last.out.t = "Ok"
       /\ emitted # <<>>
       /\ emitted[Len(emitted)][1] = last.at
       /\ emitted[Len(emitted)][2].kind \in {"Int", "Float"}
       /\ Head(emitted[Len(emitted)][2].value) = c
    \/ /\ last.out.t = "Err"
       /\ last.out.v.error.kind = "IllegalLiteral"
       /\ last.out.v.location.start = last.at

-----------------------------------------------------------------------------
(* C11: whatever precedes it, a '+' or '-' followed by a digit or '.' starts a
   numeric literal and is part of its text; a '-' followed by '>' is the one
   two-character token MinusRArrow; every other '+' is Plus and every other
   '-' is Minus with a one-character span, also at the end of input. *)
C11_SignOrOperator ==
    LET c == CharAt(TextAtDispatch, 1)
        n == CharAt(TextAtDispatch, 2)
    IN  (Dispatched /\ c \in {"+", "-"}) =>
            IF n \in DecDigits \cup {"."} THEN ScansNumberFrom(c)
            ELSE IF c = "-" /\ n = ">" THEN Accepts(Tok("MinusRArrow"), 2)
            ELSE Accepts(Tok(IF c = "+" THEN "Plus" ELSE "Minus"), 1)

\* "a-1": the '-' after an identifier is the sign of a number
C11_Witness ==
    /\ source = <<"a", "-", "1">>
    /\ last.at = 1
    /\ Accepts(TokInt("Decimal", <<"-", "1">>), 2)

-----------------------------------------------------------------------------
(* C12: a '.' followed by a digit starts a numeric literal; a '.' followed by
   '.' is the two-character token Dot2; every other '.', also at the end of
   input, is the one-character token Dot. *)
C12_DotDispatch ==
    LET c == CharAt(TextAtDispatch, 1)
        n == CharAt(TextAtDispatch, 2)
    IN  (Dispatched /\ c = ".") =>
            IF n \in DecDigits THEN ScansNumberFrom(".")
            ELSE IF n = "." THEN Accepts(Tok("Dot2"), 2)
            ELSE Accepts(Tok("Dot"), 1)

\* "a..": the range token after an identifier
C12_Witness ==
    /\ source = <<"a", ".", ".">>
    /\ last.at = 1
    /\ Accepts(Tok("Dot2"), 2)

-----------------------------------------------------------------------------
(* Helpers of C13 *)

\* the index of the first character at or after i that the whitespace loop
\* of advance_token does not skip silently
RECURSIVE SkipBlanks(_)
SkipBlanks(i) ==
    IF i <= Len(source) /\ is_whitespace(source[i]) /\ source[i] # "\n"
    THEN SkipBlanks(i + 1)
    ELSE i

\* the index of the first newline at or after i, Len(source) + 1 if none
RECURSIVE LineEnd(_)
LineEnd(i) ==
    IF i <= Len(source) /\ source[i] # "\n" THEN LineEnd(i + 1) ELSE i

\* the slashes before the span of a comment token, none before other tokens
SlashesOf(tok) ==
    IF tok.kind = "Comment" THEN 2 ELSE IF tok.kind = "CommentDoc" THEN 3 ELSE 0

\* no lexical error has been returned
NoError == \A j \in 1..Len(returned) : ~IsErr(returned[j])

(* C13: the comment scanner does not consume the newline that ends a comment:
   a Comment or CommentDoc token ends at the first newline after its start,
   and of the tokens next() returns, the one after it is the NewLine token of
   that newline, and the one after that is a separate token of the following
   text: it starts past the newline, at the first character the whitespace
   loop does not skip when nothing failed (a comment, after its slashes). *)
C13_CommentLeavesNewline ==
    \A i \in 1..Len(OkReturned) :
        LET sp == OkReturned[i].v
            nl == LineEnd(IndexAt(sp[1]))
            e == OffsetOf(nl)
        IN  (sp[2].kind \in {"Comment", "CommentDoc"} /\ nl <= Len(source)) =>
              /\ sp[3] = e
              /\ (i + 1 <= Len(OkReturned)) =>
                    OkReturned[i + 1].v = <<e, Tok("NewLine"), e + 1>>
              /\ (i + 2 <= Len(OkReturned)) =>
                    LET nx == OkReturned[i + 2].v
                    IN  /\ nx[1] >= e + 1
                        /\ (NoError /\ nx[2].kind # "EOF") =>
                              nx[1] = OffsetOf(SkipBlanks(nl + 1)) + SlashesOf(nx[2])

\* "//\na": the comment, the newline and the identifier of the next line
C13_Witness ==
    /\ source = <<"/", "/", "\n", "a">>
    /\ Len(OkReturned) = 3
    /\ OkReturned[1].v = <<2, TokText("Comment", <<>>), 2>>
    /\ OkReturned[2].v = <<2, Tok("NewLine"), 3>>
    /\ OkReturned[3].v = <<3, TokText("Ident", <<"a">>), 4>>

-----------------------------------------------------------------------------
(* C14: a '/' followed by '/' starts a comment, any other '/' is the Slash
   token; the comment is a CommentDoc exactly when a third '/' follows
   directly, else a Comment; its span starts just after the two (or three)
   slashes and ends at the first newline or at the end of input, and its
   content is source[start..end]. *)
C14_SlashOrComment ==
    LET text == TextAtDispatch
    IN  (Dispatched /\ CharAt(text, 1) = "/") =>
            IF CharAt(text, 2) = "/"
            THEN LET doc == CharAt(text, 3) = "/"
                     first == IndexAt(last.at) + (IF doc THEN 3 ELSE 2)
                     nl == LineEnd(first)
                 IN  /\ last.out.t = "Ok"
                     /\ emitted # <<>>
                     /\ emitted[Len(emitted)] =
                           <<OffsetOf(first),
                             TokText(IF doc THEN "CommentDoc" ELSE "Comment",
                                     SubSeq(source, first, nl - 1)),
                             OffsetOf(nl)>>
            ELSE Accepts(Tok("Slash"), 1)

-----------------------------------------------------------------------------
(* Helpers of C15 *)

SingleKinds == {"LParen", "RParen", "LBracket", "RBracket", "LBrace", "RBrace",
                "Colon", "At", "Percent", "Comma", "Hash", "Semicolon", "Amper",
                "Question"}

ShortKinds == {"Equal", "Exclamation", "Pipe", "LArrow", "RArrow"}

LongKinds == {"Equal2", "ExclamationEqual", "PipeRArrow", "LArrowEqual",
              "LArrowMinus", "RArrowEqual"}

(* C15: each of ( ) [ ] { } : @ % , # ; & ? is its token with span [p, p+1);
   each of = ! | < > is the two-character token == != |> <= <- >= with span
   [p, p+2) when the next character completes it, and else the one-character
   token with span [p, p+1). *)
C15_FixedPunctuation ==
    LET c == CharAt(TextAtDispatch, 1)
        n == CharAt(TextAtDispatch, 2)
    IN  Dispatched =>
          /\ \A k \in SingleKinds :
                Spelling(k) = <<c>> => Accepts(Tok(k), 1)
          /\ \A k \in LongKinds :
                Spelling(k) = <<c, n>> => Accepts(Tok(k), 2)
          /\ \A k \in ShortKinds :
                (Spelling(k) = <<c>> /\ \A k2 \in LongKinds : Spelling(k2) # <<c, n>>)
                    => Accepts(Tok(k), 1)

\* " <-": the two-character token after a blank
C15_Witness ==
    /\ source = <<" ", "<", "-">>
    /\ last.at = 1
    /\ Accepts(Tok("LArrowMinus"), 2)

-----------------------------------------------------------------------------
(* Sources of the identifier scanner *)

KeywordKinds == {"As", "Const", "Fn", "If", "Else", "And", "Or", "Import", "Let",
                 "Type", "Opaque", "Pub", "Struct", "Enum", "Break", "Continue",
                 "Async", "Await", "Return", "Test"}

\* letters of "fn" in lower and upper case, digit, underscore, blank, a
\* two-byte identifier character, a combining mark (continue only)
Words == {"f", "n", "F", "1", "_", " ", "U+00E9", "U+0301"}

\* what may follow a keyword: a letter, a digit, a blank, a parenthesis
WordTails == {"s", "1", " ", "("}

\* every keyword, alone and followed by one character
KeywordTexts == {Spelling(k) \o t : k \in KeywordKinds, t \in Strings(WordTails, 1)}

InitWord == InitOver(Strings(Words, MaxLen) \cup KeywordTexts)

SpecWord == InitWord /\ [][Next]_vars

\* the characters of a text that continue an identifier
IdContinueOf(text) ==
    {text[k] : k \in {j \in 1..Len(text) : is_id_continue(text[j])}}

-----------------------------------------------------------------------------
(* C16: the identifier scanner consumes the identifier-start character and
   the longest run of identifier-continue characters after it; the token is a
   keyword exactly when that whole text is, case-sensitively, the spelling of
   a keyword, and otherwise an Ident with exactly that text; the span covers
   exactly the consumed characters. *)
C16_IdentOrKeyword ==
    LET text == TextAtDispatch
        r == RunEnd(text, 2, IdContinueOf(text))
        name == SubSeq(text, 1, r - 1)
        end == OffsetOf(IndexAt(last.at) + r - 1)
    IN  (Dispatched /\ is_id_start(CharAt(text, 1))) =>
          /\ last.out.t = "Ok"
          /\ emitted # <<>>
          /\ emitted[Len(emitted)][1] = last.at
          /\ emitted[Len(emitted)][3] = end
          /\ \A k \in KeywordKinds :
                (Spelling(k) = name) <=> (emitted[Len(emitted)][2] = Tok(k))
          /\ (\A k \in KeywordKinds : Spelling(k) # name) =>
                emitted[Len(emitted)][2] = TokText("Ident", name)

-----------------------------------------------------------------------------
(* Sources of the string and character literal scanners *)

\* both quotes, newline, a letter, a backslash, a two-byte character
Quoted == {"\"", "'", "\n", "a", "\\", "U+00E9"}

InitLit == InitOver(Strings(Quoted, MaxLen))

SpecLit == InitLit /\ [][Next]_vars

\* the characters of a text other than c
OthersOf(text, c) == {text[k] : k \in 1..Len(text)} \ {c}

\* the last dispatch failed with an error without tok over [last.at, end)
FailsWith(kind, end) ==
    /\ last.out.t = "Err"
    /\ last.out.v = [error |-> [kind |-> kind, tok |-> None],
                     location |-> [start |-> last.at, end |-> end]]

-----------------------------------------------------------------------------
(* C17: a string literal is accepted exactly when a closing '"' occurs before
   the end of input: the value is the raw text between the opening quote and
   the first following '"' and the span runs from the opening quote to just
   past the closing quote; otherwise next() fails with UnexpectedStringEnd
   over the span from the opening quote to the end of input. *)
C17_StringLiteral ==
    LET text == TextAtDispatch
        q == RunEnd(text, 2, OthersOf(text, "\""))
    IN  (Dispatched /\ CharAt(text, 1) = "\"") =>
            IF q <= Len(text)
            THEN /\ last.out.t = "Ok"
                 /\ emitted # <<>>
                 /\ emitted[Len(emitted)] =
                       <<last.at, TokText("String", SubSeq(text, 2, q - 1)),
                         OffsetOf(IndexAt(last.at) + q)>>
            ELSE FailsWith("UnexpectedStringEnd", ByteLen(source))

-----------------------------------------------------------------------------
(* C18: a character literal is accepted exactly when the opening quote is
   followed by one character other than ' and then a closing ': the Char token
   carries that character and spans from the opening quote to just past the
   closing quote; an opening quote directly followed by ' fails with
   EmptyCharLiteral over both quotes; in every other case next() fails with
   UnexpectedCharEnd on a span that starts at the opening quote. *)
C18_CharLiteral ==
    LET text == TextAtDispatch
        c == CharAt(text, 2)
    IN  (Dispatched /\ CharAt(text, 1) = "'") =>
            IF c = "'" THEN FailsWith("EmptyCharLiteral", last.at + 2)
            ELSE IF c # None /\ CharAt(text, 3) = "'"
            THEN /\ last.out.t = "Ok"
                 /\ emitted # <<>>
                 /\ emitted[Len(emitted)] =
                       <<last.at, TokText("Char", <<c>>),
                         OffsetOf(IndexAt(last.at) + 3)>>
            ELSE /\ last.out.t = "Err"
                 /\ last.out.v.error = [kind |-> "UnexpectedCharEnd", tok |-> None]
                 /\ last.out.v.location.start = last.at

\* a character literal of a two-byte character: the span is [0, 4)
C18_Witness ==
    /\ source = <<"'", "U+00E9", "'">>
    /\ last.at = 0
    /\ last.out.t = "Ok"
    /\ emitted = <<<<0, TokText("Char", <<"U+00E9">>), 4>>>>

-----------------------------------------------------------------------------
(* Helpers of C19 *)

\* the characters that begin the spelling of a punctuation token
PunctuationStarts ==
    {Spelling(k)[1] : k \in SingleKinds \cup ShortKinds \cup
                            {"Plus", "Minus", "Dot", "Slash"}}

\* the character starts a token: punctuation, a quote, an identifier-start
\* character or a digit
StartsToken(c) ==
    \/ c \in PunctuationStarts
    \/ c \in {"\"", "'"}
    \/ is_id_start(c)
    \/ c \in DecDigits

(* C19: when the current character is not whitespace and starts no token,
   next() fails with UnrecognizedToken on that character, with the zero-width
   span start = end = the offset of the character. *)
C19_UnrecognizedToken ==
    LET c == CharAt(TextAtDispatch, 1)
    IN  (Dispatched /\ ~StartsToken(c)) =>
          /\ last.out.t = "Err"
          /\ last.out.v = [error |-> [kind |-> "UnrecognizedToken", tok |-> c],
                           location |-> [start |-> last.at, end |-> last.at]]
          /\ \E i \in 1..Len(returned) :
                returned[i].t = "Err" /\ returned[i].v = last.out.v

\* "a *": the star after an identifier and a blank
C19_Witness ==
    /\ source = <<"a", " ", "*">>
    /\ last.at = 2
    /\ result = Err("UnrecognizedToken", "*", 2, 2)

-----------------------------------------------------------------------------
(* Sources of the whitespace loop *)

\* newline, blank, a three-byte whitespace character, a letter, both quotes,
\* slash, and a digit and a separator for numeric literals
Blanks == {"\n", " ", "U+2028", "a", "\"", "'", "/", "1", "_"}

InitBlank == InitOver(Strings(Blanks, MaxLen))

SpecBlank == InitBlank /\ [][Next]_vars

\* the character at index k lies within a string literal, a character
\* literal or a comment: within the span of such a token, or within the span
\* of the error of a string or character literal
InLiteralOrComment(k) ==
    \/ \E i \in 1..Len(emitted) :
          /\ emitted[i][2].kind \in {"String", "Char", "Comment", "CommentDoc"}
          /\ emitted[i][1] <= OffsetOf(k)
          /\ OffsetOf(k) < emitted[i][3]
    \/ \E i \in 1..Len(returned) :
          /\ returned[i].t = "Err"
          /\ returned[i].v.error.kind \in
                {"UnexpectedStringEnd", "UnexpectedCharEnd", "EmptyCharLiteral"}
          /\ returned[i].v.location.start <= OffsetOf(k)
          /\ OffsetOf(k) < returned[i].v.location.end

\* the NewLine token of the character at index k
NewLineAt(k) == <<OffsetOf(k), Tok("NewLine"), OffsetOf(k) + 1>>

\* the cursor has moved past the character at index k
Passed(k) == OffsetOf(k) < get_pos(lexer)

-----------------------------------------------------------------------------
(* C20: outside string literals, character literals and comments, every '\n'
   of the source that the lexer has passed has produced exactly one NewLine
   token, with the span [p, p+1) at its own offset p, and no other whitespace
   character has produced a token: every NewLine token is the one of such a
   '\n', and every other token but EOF and the comments, whose span starts
   after the slashes, starts at a character that is not whitespace. *)
C20_NewLinePerNewline ==
    /\ \A k \in 1..Len(source) :
          (source[k] = "\n" /\ Passed(k) /\ ~InLiteralOrComment(k)) =>
              Cardinality({i \in 1..Len(emitted) : emitted[i] = NewLineAt(k)}) = 1
    /\ \A i \in 1..Len(emitted) :
          \/ emitted[i][2].kind \in {"EOF", "Comment", "CommentDoc"}
          \/ /\ IsBoundary(emitted[i][1])
             /\ IndexAt(emitted[i][1]) <= Len(source)
             /\ LET k == IndexAt(emitted[i][1])
                IN  IF emitted[i][2].kind = "NewLine"
                    THEN /\ source[k] = "\n"
                         /\ emitted[i] = NewLineAt(k)
                         /\ ~InLiteralOrComment(k)
                    ELSE ~is_whitespace(source[k])

-----------------------------------------------------------------------------
(* The end-to-end scenario of numeric literals *)

\* the source "3.14 .5 -0 0b10"
Scenario ==
    <<"3", ".", "1", "4", " ", ".", "5", " ", "-", "0", " ", "0", "b", "1", "0">>

\* the scenario and every contiguous piece of it
ScenarioPieces ==
    {SubSeq(Scenario, i, j) : i \in 1..Len(Scenario), j \in 1..Len(Scenario)}

InitScenario == InitOver(ScenarioPieces)

SpecScenario == InitScenario /\ [][Next]_vars

\* what the successive next() calls are to return over the scenario
ScenarioTokens ==
    << <<0, TokFloat(FALSE, <<"3", ".", "1", "4">>), 4>>,
       <<5, TokFloat(FALSE, <<".", "5">>), 7>>,
       <<8, TokInt("Decimal", <<"-", "0">>), 10>>,
       <<11, TokInt("Binary", <<"0", "b", "1", "0">>), 15>>,
       <<15, Tok("EOF"), 15>> >>

-----------------------------------------------------------------------------
(* C21: over the source "3.14 .5 -0 0b10" the successive next() calls return
   Float(false, "3.14") at [0,4), Float(false, ".5") at [5,7),
   Int(Decimal, "-0") at [8,10), Int(Binary, "0b10") at [11,15) and then EOF
   at [15,15). *)
C21_NumberScenario ==
    source = Scenario =>
        \A i \in 1..Len(returned) :
            i <= Len(ScenarioTokens) =>
                returned[i].t = "Ok" /\ returned[i].v = ScenarioTokens[i]

\* the five calls have returned, the last one EOF
C21_Witness ==
    /\ source = Scenario
    /\ pc = "idle"
    /\ Len(returned) = 5
    /\ IsEof(returned[5])

-----------------------------------------------------------------------------
(* The window after construction *)

\* no next() call has touched the lexer since Lexer::new
FreshlyBuilt == pc = "idle" /\ returned = <<>> /\ emitted = <<>>

\* C23: immediately after construction on a non-empty input chr0 is the first
\* character, chr1 is the second character (None when the input has one
\* character) and get_pos() = loc0 is the offset of the first character; on
\* an empty input chr0 and chr1 are both None.
C23_WindowAfterNew ==
    FreshlyBuilt =>
        IF source = <<>>
        THEN lexer.chr0 = None /\ lexer.chr1 = None
        ELSE /\ lexer.chr0 = source[1]
             /\ lexer.chr1 = (IF Len(source) >= 2 THEN source[2] ELSE None)
             /\ get_pos(lexer) = lexer.loc0
             /\ lexer.loc0 = OffsetOf(1)

\* a lexer just built over a two-byte character followed by a one-byte one
C23_Witness ==
    /\ FreshlyBuilt
    /\ source = <<"U+00E9", "a">>
    /\ lexer.chr0 = "U+00E9" /\ lexer.chr1 = "a"
    /\ get_pos(lexer) = 0 /\ lexer.loc1 = 2

-----------------------------------------------------------------------------
(* The public consume(), called by the holder of the lexer between next() calls *)

\* the longest source of the cursor specification
MaxCursorLen == 3

\* how far past the end of the input the caller keeps consuming
MaxPastEnd == 2

\* a one-byte character, a newline (which queues a NewLine token) and a
\* two-byte character
CursorChars == {"a", "\n", "U+00E9"}

InitCursor == InitOver(Strings(CursorChars, MaxCursorLen))

\* `lexer.consume()`: the window shifts and the old chr0 is returned
Consume ==
    /\ pc = "idle"
    /\ lexer.loc1 < ByteLen(source) + MaxPastEnd
    /\ lexer' = consume(lexer)
    /\ result' = [t |-> "Chr", v |-> lexer.chr0]
    /\ UNCHANGED <<source, pc, returned, emitted, last>>
    /\ UNCHANGED <<fsmVars, parserVars>>

NextCursor == CallNext \/ AdvanceToken \/ ReturnPending \/ Consume

SpecCursor == InitCursor /\ [][NextCursor]_vars

\* what consume() promises of the lexer l before and m after the call that
\* returned chr
ConsumeContract(l, m, chr) ==
    /\ chr = l.chr0
    /\ m.chr0 = l.chr1
    /\ IF l.chr0 = None
       THEN m.chr1 = None /\ get_pos(m) = get_pos(l) + 1
       ELSE LET i == IndexAt(get_pos(l))
            IN  /\ l.chr0 = source[i]
                /\ m.chr0 = CharAt(source, i + 1)
                /\ m.chr1 = CharAt(source, i + 2)
                /\ m.chr0 # None => get_pos(m) = OffsetOf(i + 1)
    /\ m.pending = l.pending
    /\ m.location = l.location

\* C24: each consume() call returns the character that was current before the
\* call (None at the end) and shifts the window by one position: the old chr1
\* becomes chr0, the next input character (or None) becomes chr1 and
\* get_pos() becomes the offset of the new current character; once the
\* current character is None every further consume() increases get_pos() by
\* one; the pending queue and `location` are left alone.
C24_ConsumeContract == [][Consume => ConsumeContract(lexer, lexer', result'.v)]_vars

\* consume() was called past the end of the input while a token was queued
C24_Witness ==
    /\ result.t = "Chr" /\ result.v = None
    /\ lexer.pending # <<>>
    /\ get_pos(lexer) > ByteLen(source)
    /\ \E i \in 1..Len(source) : source[i] = "U+00E9"

-----------------------------------------------------------------------------
(* The error exit of the numeric scanner *)

RECURSIVE ErrorIndex(_, _, _)
\* the index of the input on which the state machine, in `state` before the
\* character at index i of the text, moves to Error (Len(text) + 1 is the end
\* of input); 0 when it moves to End
ErrorIndex(text, i, state) ==
    LET new_state == state_transition(state, CharAt(text, i))
    IN  IF new_state = "Error" THEN i
        ELSE IF new_state \in {"End", "Panic"} THEN 0
        ELSE ErrorIndex(text, i + 1, new_state)

\* C26: when the numeric state machine reaches Error on the end of input, the
\* error's tok is the last character the scan consumed, nothing more is
\* consumed and the span runs from the start of the literal to the
\* end-of-input position; when it reaches Error on a character, that
\* character is consumed and reported as tok, the span runs from the start of
\* the literal to just past that character, and scanning resumes after it.
C26_NumericErrorSpan ==
    last.arm = "number" =>
        LET text == TextAtDispatch
            k == ErrorIndex(text, 1, "Start")
        IN  k > 0 =>
                /\ last.out.t = "Err"
                /\ IF k > Len(text)
                   THEN /\ last.out.v = Err("IllegalLiteral", text[Len(text)],
                                            last.at, ByteLen(source)).v
                        /\ lexer.chr0 = None
                        /\ get_pos(lexer) = ByteLen(source)
                   ELSE /\ last.out.v =
                               Err("IllegalLiteral", text[k], last.at,
                                   last.at + ByteLen(SubSeq(text, 1, k))).v
                        /\ lexer.chr0 = CharAt(text, k + 1)

-----------------------------------------------------------------------------
(* state_transition on its own: every non-terminal state with every kind of
   input *)

\* the 18 states that are not final
NonTerminal == State \ {"End", "Error"}

\* digits within and beyond each radix, radix and exponent markers in both
\* cases, separator, dot, signs, letters that are nothing, whitespace of one
\* and of three bytes, and the end of input
FsmInputs == {"0", "1", "7", "8", "9", "a", "f", "F", "g", "x", "X", "o", "O",
              "b", "B", "e", "E", "_", ".", "+", "-", "$",
              " ", "\n", "\t", "U+2028", None}

InitFsm ==
    /\ LexerOver({<<>>})
    /\ NoParser
    /\ fsm \in [state : NonTerminal, chr : FsmInputs, new_state : {None}]

\* `new_state = state_transition(state, chr);`
Transition ==
    /\ fsm.new_state = None
    /\ fsm' = [fsm EXCEPT !.new_state = state_transition(fsm.state, fsm.chr)]
    /\ UNCHANGED <<lexerVars, parserVars>>

\* `state = new_state;` and the next turn of the loop reads the next chr0
Proceed ==
    /\ fsm.new_state \in NonTerminal
    /\ \E c \in FsmInputs :
           fsm' = [state |-> fsm.new_state, chr |-> c, new_state |-> None]
    /\ UNCHANGED <<lexerVars, parserVars>>

NextFsm == Transition \/ Proceed

SpecFsm == InitFsm /\ [][NextFsm]_vars

\* C27: state_transition is total on the 18 non-terminal states; for
\* whitespace or the end of input it returns End exactly when the state is
\* one of Zero, Int, Dot, Frac, ExpInt, Hex, Oct, Bin, and Error from Start,
\* Sign, Exp, ExpSign and the six *Underscore states; it never returns End
\* for a character that is not whitespace.
C27_EndOnlyFromEndStates ==
    fsm.new_state # None =>
        /\ fsm.state \in NonTerminal
        /\ fsm.new_state \in State
        /\ IF fsm.chr = None \/ is_whitespace(fsm.chr)
           THEN /\ fsm.state \in {"Zero", "Int", "Dot", "Frac", "ExpInt",
                                  "Hex", "Oct", "Bin"}
                   => fsm.new_state = "End"
                /\ fsm.state \in {"Start", "Sign", "Exp", "ExpSign",
                                  "IntUnderscore", "ExpIntUnderscore",
                                  "FracUnderscore", "HexUnderscore",
                                  "OctUnderscore", "BinUnderscore"}
                   => fsm.new_state = "Error"
           ELSE fsm.new_state # "End"

\* a separator of the integer part followed by the three-byte line separator
C27_Witness ==
    /\ fsm.state = "IntUnderscore"
    /\ fsm.chr = "U+2028"
    /\ fsm.new_state = "Error"

-----------------------------------------------------------------------------
(* The token of a scan that ends in End *)

RECURSIVE LastState(_, _, _)
\* the state from which the state machine, in `state` before the character
\* at index i of the text, moves to End; None when it moves to Error
LastState(text, i, state) ==
    LET new_state == state_transition(state, CharAt(text, i))
    IN  IF new_state = "End" THEN state
        ELSE IF new_state \in {"Error", "Panic"} THEN None
        ELSE LastState(text, i + 1, new_state)

\* the kind, base and has_exp of a token
Shape(tok) == <<tok.kind, tok.base, tok.has_exp>>

\* C28: when a numeric scan ends in End the token kind is determined by the
\* last non-terminal state alone: Bin gives Int(Binary), Oct Int(Octal), Int
\* or Zero Int(Decimal), Hex Int(Hexadecimal), ExpInt Float(has_exp = true),
\* Frac or Dot Float(has_exp = false); "10." and "-1." lex as a Float whose
\* value keeps the dot.
C28_TokenOfLastState ==
    /\ last.arm = "number" /\ LastState(TextAtDispatch, 1, "Start") # None =>
            LET state == LastState(TextAtDispatch, 1, "Start")
            IN  /\ last.out.t = "Ok"
                /\ emitted # <<>>
                /\ emitted[Len(emitted)][1] = last.at
                /\ Shape(emitted[Len(emitted)][2]) =
                       CASE state = "Bin" -> <<"Int", "Binary", FALSE>>
                         [] state = "Oct" -> <<"Int", "Octal", FALSE>>
                         [] state = "Int" -> <<"Int", "Decimal", FALSE>>
                         [] state = "Zero" -> <<"Int", "Decimal", FALSE>>
                         [] state = "Hex" -> <<"Int", "Hexadecimal", FALSE>>
                         [] state = "ExpInt" -> <<"Float", "", TRUE>>
                         [] state = "Frac" -> <<"Float", "", FALSE>>
                         [] state = "Dot" -> <<"Float", "", FALSE>>
    /\ source = <<"1", "0", ".">> /\ returned # <<>> =>
            /\ returned[1].t = "Ok"
            /\ returned[1].v = <<0, TokFloat(FALSE, <<"1", "0", ".">>), 3>>
    /\ source = <<"-", "1", ".">> /\ returned # <<>> =>
            /\ returned[1].t = "Ok"
            /\ returned[1].v = <<0, TokFloat(FALSE, <<"-", "1", ".">>), 3>>

\* "-1." followed by a blank was scanned: the state machine stopped in Dot
C28_Witness ==
    /\ source = <<"-", "1", ".", " ">>
    /\ last.arm = "number" /\ last.at = 0
    /\ LastState(TextAtDispatch, 1, "Start") = "Dot"
    /\ returned # <<>>
    /\ returned[1].t = "Ok"
    /\ returned[1].v = <<0, TokFloat(FALSE, <<"-", "1", ".">>), 3>>

-----------------------------------------------------------------------------
(* The exponent of a literal *)

\* the index of the first 'e' or 'E' of a text, 0 if it has none
MarkerAt(text) ==
    IF \E k \in 1..Len(text) : text[k] \in {"e", "E"}
    THEN CHOOSE k \in 1..Len(text) :
            /\ text[k] \in {"e", "E"}
            /\ \A j \in 1..(k - 1) : text[j] \notin {"e", "E"}
    ELSE 0

\* an 'x' or 'X' stands before the index m of the text: what follows are
\* hexadecimal digits, of which 'e' is one
HexBefore(text, m) == \E k \in 1..(m - 1) : text[k] \in {"x", "X"}

\* the text up to its first whitespace character
RECURSIVE UpToBlank(_)
UpToBlank(text) ==
    IF text = <<>> \/ is_whitespace(Head(text)) THEN <<>>
    ELSE <<Head(text)>> \o UpToBlank(Tail(text))

\* after the marker at m the text has at most one sign and then a digit
ExponentHasDigit(text, m) ==
    LET d == IF CharAt(text, m + 1) \in {"+", "-"} THEN m + 2 ELSE m + 1
    IN  CharAt(text, d) \in DecDigits

\* C29: every accepted literal that contains an exponent marker has, after
\* the marker, at most one sign and then at least one decimal digit; a literal
\* that stops at the marker or at the exponent sign, or has a non-digit
\* directly after the exponent sign, is rejected with IllegalLiteral.
C29_ExponentNeedsDigits ==
    /\ \A i \in 1..Len(NumbersReturned) :
          LET text == NumbersReturned[i].v[2].value
              m == MarkerAt(text)
          IN  m # 0 /\ ~HexBefore(text, m) => ExponentHasDigit(text, m)
    /\ last.arm = "number" =>
          LET text == UpToBlank(TextAtDispatch)
              m == MarkerAt(text)
          IN  m # 0 /\ ~HexBefore(text, m) /\ ~ExponentHasDigit(text, m) =>
                /\ last.out.t = "Err"
                /\ last.out.v.error.kind = "IllegalLiteral"

\* "1e-" was rejected: the literal stops at the exponent sign
C29_Witness ==
    /\ source = <<"1", "e", "-">>
    /\ last.arm = "number"
    /\ last.out.t = "Err"
    /\ last.out.v = Err("IllegalLiteral", "-", 0, 3).v

-----------------------------------------------------------------------------
(* The transition table documented on the State type, DOT *)

\* C30: in state Dot the character 'e' or 'E' moves the state machine to
\* Exp, as the table on the State type lists for DOT.
C30_DotExponent ==
    fsm.new_state # None /\ fsm.state = "Dot" /\ fsm.chr \in {"e", "E"} =>
        fsm.new_state = "Exp"

-----------------------------------------------------------------------------
(* The parser (parser/parser.rs), without the #[cfg(test)] loop counter of
   parse_program.  An Option is a sequence: <<>> is None and <<x>> is Some(x).
   Every parse function returns the parser after the call and its Result;
   an error carries the fixed part of its message. *)

Some(x) == <<x>>

\* Err(message)
Failure(message) == [t |-> "Err", v |-> message]

\* a loop that repeats without consuming a token never returns
Diverges(site) == [t |-> "Diverges", v |-> site]

\* ast.rs: Type, Parameter and the ASTNode variants the parser builds
Type(name) == [name |-> name]
Parameter(name, type_name) == [name |-> name, param_type |-> Type(type_name)]
Function(name, params, return_type, body) ==
    [node |-> "Function", name |-> name, params |-> params,
     return_type |-> return_type, body |-> body]
Variable(name, value) == [node |-> "Variable", name |-> name, value |-> value]
Return(value) == [node |-> "Return", value |-> value]
Struct == [node |-> "Struct", name |-> <<>>, fields |-> <<>>]
BinaryOp(left, operator, right) ==
    [node |-> "BinaryOp", left |-> left, operator |-> operator, right |-> right]

\* `self.token_stream.next()` stored in current_token
stream_next(p) ==
    IF p.token_stream = <<>>
    THEN [p EXCEPT !.current_token = <<>>]
    ELSE [token_stream |-> Tail(p.token_stream),
          current_token |-> Some(Head(p.token_stream))]

\* Parser::new
Parser_new(tokens) == stream_next([token_stream |-> tokens, current_token |-> <<>>])

\* the Token of current_token; Tok(None) when there is none
current(p) == IF p.current_token = <<>> THEN Tok(None) ELSE p.current_token[1][2]

RECURSIVE skip_newlines(_)
\* the `while let Some((_, Token::NewLine, _))` loop of advance
skip_newlines(p) ==
    IF current(p).kind = "NewLine" THEN skip_newlines(stream_next(p)) ELSE p

\* Parser::advance
advance(p) == skip_newlines(stream_next(p))

\* Parser::consume
Parser_consume(p, expected) ==
    IF p.current_token = <<>>
    THEN [p |-> p, out |-> Failure("Unexpected end of input")]
    ELSE IF current(p) = expected
    THEN [p |-> advance(p), out |-> Ok(<<>>)]
    ELSE [p |-> p, out |-> Failure("Expected")]

\* `let x = value;` for what follows: the value is computed once
With(value, rest(_)) == CHOOSE y \in {rest(x) : x \in {value}} : TRUE

\* `let x = call?;` for what follows: an Err (or a loop that never returns)
\* is the result of the whole function
Try(call, rest(_)) ==
    CHOOSE y \in {IF x.out.t # "Ok" THEN x ELSE rest(x) : x \in {call}} : TRUE

\* Parser::parse_type
parse_type(p) ==
    IF current(p).kind = "Ident"
    THEN [p |-> advance(p), out |-> Ok(Some(Type(current(p).value)))]
    ELSE [p |-> p, out |-> Failure("Expected a type annotation")]

RECURSIVE parse_expression(_), parse_primary(_), expression_loop(_, _)

\* Parser::parse_primary
parse_primary(p) ==
    IF p.current_token = <<>>
    THEN [p |-> p, out |-> Failure("Unexpected end of input while parsing expression")]
    ELSE CASE current(p).kind = "Ident" ->
                [p |-> advance(p), out |-> Ok(Variable(current(p).value, <<>>))]
           [] current(p).kind = "LParen" ->
                Try(parse_expression(advance(p)), LAMBDA expr :
                Try(Parser_consume(expr.p, Tok("RParen")), LAMBDA c :
                [p |-> c.p, out |-> expr.out]))
           [] OTHER ->
                [p |-> p, out |-> Failure("Unexpected token in expression")]

\* the while-let loop of parse_expression
expression_loop(p, left) ==
    IF current(p).kind \in {"Plus", "Minus", "Asterisk", "Slash"}
    THEN Try(parse_primary(advance(p)), LAMBDA right :
         expression_loop(right.p, BinaryOp(left, current(p), right.out.v)))
    ELSE [p |-> p, out |-> Ok(left)]

\* Parser::parse_expression
parse_expression(p) ==
    Try(parse_primary(p), LAMBDA left : expression_loop(left.p, left.out.v))

\* `Some(Box::new(self.parse_expression()?))`
some_expression(p) ==
    Try(parse_expression(p), LAMBDA expr :
    [p |-> expr.p, out |-> Ok(Some(expr.out.v))])

\* Parser::parse_return_statement
parse_return_statement(p) ==
    Try(Parser_consume(p, Tok("Return")), LAMBDA c :
    Try(IF current(c.p).kind = "Semicolon"
        THEN [p |-> c.p, out |-> Ok(<<>>)]
        ELSE some_expression(c.p), LAMBDA value :
    Try(Parser_consume(value.p, Tok("Semicolon")), LAMBDA semi :
    [p |-> semi.p, out |-> Ok(Return(value.out.v))])))

\* Parser::parse_variable_declaration
parse_variable_declaration(p) ==
    Try(Parser_consume(p, Tok("Let")), LAMBDA c :
    IF current(c.p).kind # "Ident"
    THEN [p |-> c.p, out |-> Failure("Expected variable name")]
    ELSE
    With(advance(c.p), LAMBDA p1 :
    Try(IF current(p1).kind = "Colon"
        THEN parse_type(advance(p1))
        ELSE [p |-> p1, out |-> Ok(<<>>)], LAMBDA variable_type :
    Try(IF current(variable_type.p).kind = "Equal"
        THEN some_expression(advance(variable_type.p))
        ELSE [p |-> variable_type.p, out |-> Ok(<<>>)], LAMBDA variable_value :
    Try(Parser_consume(variable_value.p, Tok("Semicolon")), LAMBDA semi :
    [p |-> semi.p,
     out |-> Ok(Variable(current(c.p).value, variable_value.out.v))])))))

\* Parser::parse_struct_declaration: the stub consumes nothing
parse_struct_declaration(p) == [p |-> p, out |-> Ok(Struct)]

RECURSIVE parameters_loop(_, _)
\* the while-let loop of parse_parameters
parameters_loop(p, params) ==
    IF p.current_token = <<>> THEN [p |-> p, out |-> Ok(params)]
    ELSE CASE current(p).kind = "Ident" ->
                Try(Parser_consume(advance(p), Tok("Colon")), LAMBDA c :
                IF current(c.p).kind # "Ident"
                THEN [p |-> c.p, out |-> Failure("Expected a type for parameter")]
                ELSE
                With(Append(params, Parameter(current(p).value, current(c.p).value)),
                     LAMBDA pushed :
                With(advance(c.p), LAMBDA p1 :
                IF current(p1).kind = "Comma"
                THEN parameters_loop(advance(p1), pushed)
                ELSE [p |-> p1, out |-> Ok(pushed)])))
           [] current(p).kind = "RParen" -> [p |-> p, out |-> Ok(params)]
           [] OTHER ->
                [p |-> p, out |-> Failure("Unexpected token in parameter list")]

\* Parser::parse_parameters
parse_parameters(p) == parameters_loop(p, <<>>)

RECURSIVE parse_statement(_), parse_function_declaration(_), block_loop(_, _)

\* the while-let loop of parse_block
block_loop(p, statements) ==
    IF p.current_token = <<>> \/ current(p).kind = "RBrace"
    THEN [p |-> p, out |-> Ok(statements)]
    ELSE Try(parse_statement(p), LAMBDA st :
         IF st.p = p THEN [p |-> p, out |-> Diverges("parse_block")]
         ELSE block_loop(st.p, Append(statements, st.out.v)))

\* Parser::parse_block
parse_block(p) == block_loop(p, <<>>)

\* Parser::parse_function_declaration
parse_function_declaration(p) ==
    Try(Parser_consume(p, Tok("Fn")), LAMBDA c :
    IF current(c.p).kind # "Ident"
    THEN [p |-> c.p, out |-> Failure("Expected function name")]
    ELSE
    Try(Parser_consume(advance(c.p), Tok("LParen")), LAMBDA lp :
    Try(parse_parameters(lp.p), LAMBDA params :
    Try(Parser_consume(params.p, Tok("RParen")), LAMBDA rp :
    Try(IF current(rp.p).kind = "MinusRArrow"
        THEN parse_type(advance(rp.p))
        ELSE [p |-> rp.p, out |-> Ok(<<>>)], LAMBDA return_type :
    Try(Parser_consume(return_type.p, Tok("LBrace")), LAMBDA lb :
    Try(parse_block(lb.p), LAMBDA body :
    Try(Parser_consume(body.p, Tok("RBrace")), LAMBDA rb :
    [p |-> rb.p,
     out |-> Ok(Function(current(c.p).value, params.out.v,
                         return_type.out.v, body.out.v))]))))))))

\* Parser::parse_statement
parse_statement(p) ==
    CASE current(p).kind = "Fn" -> parse_function_declaration(p)
      [] current(p).kind = "Let" -> parse_variable_declaration(p)
      [] current(p).kind = "Return" -> parse_return_statement(p)
      [] current(p).kind = "Struct" -> parse_struct_declaration(p)
      [] OTHER -> [p |-> p, out |-> Failure("Unexpected token in statement")]

RECURSIVE program_loop(_, _)
\* the while-let loop of parse_program
program_loop(p, nodes) ==
    IF p.current_token = <<>> THEN [p |-> p, out |-> Ok(nodes)]
    ELSE IF current(p).kind = "NewLine" THEN program_loop(advance(p), nodes)
    ELSE IF current(p).kind = "EOF" THEN [p |-> p, out |-> Ok(nodes)]
    ELSE Try(parse_statement(p), LAMBDA st :
         IF st.p = p THEN [p |-> p, out |-> Diverges("parse_program")]
         ELSE program_loop(st.p, Append(nodes, st.out.v)))

\* Parser::parse_program
parse_program(p) == program_loop(p, <<>>)

-----------------------------------------------------------------------------
(* Token streams of function declarations, as the tests hand them to
   Parser::new: `fn add ( a : i32 , ... ) -> R { statements }` EOF *)

\* the most parameters of a declaration
MaxParams == 2

\* the most statements in a body
MaxStatements == 2

\* the longest run of NewLine tokens put between two tokens
MaxNewLines == 2

Ident(name) == TokText("Ident", name)

FunctionName == <<"a", "d", "d">>
ParamNames == << <<"a">>, <<"b">>, <<"c">> >>
ParamTypes == << <<"i", "3", "2">>, <<"u", "8">>, <<"T">> >>
ReturnType == <<"R">>

\* `a + b`
SumTokens == <<Ident(<<"a">>), Tok("Plus"), Ident(<<"b">>)>>
SumNode == BinaryOp(Variable(<<"a">>, <<>>), Tok("Plus"), Variable(<<"b">>, <<>>))

\* the statements of the bodies: their tokens, the variant of their node and,
\* where the tests or ast.rs give it, the node itself
\*   return a + b;   let s = a + b;   return s;   return;   return 42;
Statements ==
    << [tokens |-> <<Tok("Return")>> \o SumTokens \o <<Tok("Semicolon")>>,
        kind |-> "Return", node |-> Some(Return(Some(SumNode)))],
       [tokens |-> <<Tok("Let"), Ident(<<"s">>), Tok("Equal")>> \o SumTokens
                   \o <<Tok("Semicolon")>>,
        kind |-> "Variable", node |-> Some(Variable(<<"s">>, Some(SumNode)))],
       [tokens |-> <<Tok("Return"), Ident(<<"s">>), Tok("Semicolon")>>,
        kind |-> "Return", node |-> Some(Return(Some(Variable(<<"s">>, <<>>))))],
       [tokens |-> <<Tok("Return"), Tok("Semicolon")>>,
        kind |-> "Return", node |-> Some(Return(<<>>))],
       [tokens |-> <<Tok("Return"), TokInt("Decimal", <<"4", "2">>),
                     Tok("Semicolon")>>,
        kind |-> "Return", node |-> <<>>] >>

\* the bodies: sequences of indices into Statements
Bodies == UNION {[1..n -> 1..Len(Statements)] : n \in 0..MaxStatements}

RECURSIVE ParamTokens(_, _)
\* the tokens of the parameters i..k: `a : i32 , b : u8`
ParamTokens(i, k) ==
    IF i > k THEN <<>>
    ELSE <<Ident(ParamNames[i]), Tok("Colon"), Ident(ParamTypes[i])>>
         \o (IF i < k THEN <<Tok("Comma")>> ELSE <<>>)
         \o ParamTokens(i + 1, k)

RECURSIVE BodyTokens(_)
BodyTokens(body) ==
    IF body = <<>> THEN <<>>
    ELSE Statements[Head(body)].tokens \o BodyTokens(Tail(body))

\* the tokens of the declaration with k parameters and the body
DeclTokens(k, body) ==
    <<Tok("Fn"), Ident(FunctionName), Tok("LParen")>> \o ParamTokens(1, k)
    \o <<Tok("RParen"), Tok("MinusRArrow"), Ident(ReturnType), Tok("LBrace")>>
    \o BodyTokens(body) \o <<Tok("RBrace"), Tok("EOF")>>

\* every declaration: its tokens, the number of its parameters and its body
Declarations ==
    {[tokens |-> DeclTokens(k, body), params |-> k, body |-> body] :
        k \in 0..MaxParams, body \in Bodies}

\* n NewLine tokens
NewLines(n) == [i \in 1..n |-> Tok("NewLine")]

RECURSIVE Interleaved(_)
\* a NewLine token before every token
Interleaved(toks) ==
    IF toks = <<>> THEN <<>>
    ELSE <<Tok("NewLine"), Head(toks)>> \o Interleaved(Tail(toks))

\* the tokens as they are, with a NewLine before every token, and with a run
\* of NewLine tokens before one token
WithNewLines(toks) ==
    {toks, Interleaved(toks)}
    \cup {SubSeq(toks, 1, g) \o NewLines(n) \o SubSeq(toks, g + 1, Len(toks)) :
            g \in 0..(Len(toks) - 1), n \in 1..MaxNewLines}

\* (start, token, end) with the position of the token as its span
Spans(toks) == [i \in 1..Len(toks) |-> <<i - 1, toks[i], i>>]

TokenStreams == {Spans(t) : t \in UNION {WithNewLines(d.tokens) : d \in Declarations}}

InitParser ==
    /\ LexerOver({<<>>})
    /\ NoFsm
    /\ source_tokens \in TokenStreams
    /\ parser = Parser_new(source_tokens)
    /\ ast = [t |-> "None", v |-> <<>>]

\* `parser.parse_program()`
ParseProgram ==
    /\ ast.t = "None"
    /\ \E r \in {parse_program(parser)} : parser' = r.p /\ ast' = r.out
    /\ UNCHANGED <<source_tokens, lexerVars, fsmVars>>

NextParser == ParseProgram

SpecParser == InitParser /\ [][NextParser]_vars

\* the tokens of the stream without their spans and without NewLine tokens
IsNotNewLine(sp) == sp[2].kind # "NewLine"
Significant == [i \in 1..Len(SelectSeq(source_tokens, IsNotNewLine)) |->
                   SelectSeq(source_tokens, IsNotNewLine)[i][2]]

\* the node is what the statement st of Statements parses to
NodeOf(node, st) ==
    IF st.node # <<>> THEN node = st.node[1] ELSE node.node = st.kind

\* the result of parse_program is the one Function node of the declaration d
ParsedAs(d) ==
    /\ ast.t = "Ok"
    /\ Len(ast.v) = 1
    /\ ast.v[1].node = "Function"
    /\ ast.v[1].name = FunctionName
    /\ ast.v[1].params = [i \in 1..d.params |-> Parameter(ParamNames[i], ParamTypes[i])]
    /\ ast.v[1].return_type = Some(Type(ReturnType))
    /\ Len(ast.v[1].body) = Len(d.body)
    /\ \A i \in 1..Len(d.body) : NodeOf(ast.v[1].body[i], Statements[d.body[i]])

\* C25: given the token stream of a function declaration
\* `fn name ( p1 : T1 , ... ) -> R { statements }` followed by EOF, with or
\* without NewLine tokens between the tokens, parse_program returns exactly
\* one Function node with that name, the parameters in source order with
\* their types, the return type R and the body statements in source order.
C25_FunctionDeclaration ==
    ast.t # "None" =>
        \A d \in Declarations : Significant = d.tokens => ParsedAs(d)

-----------------------------------------------------------------------------
(* Errors and the pending queue *)

\* C31: whenever next() returns a lexical error, every token scanned before
\* the error was detected has already been returned: the pending queue is
\* empty at that moment, and no later next() call returns a token whose start
\* offset is smaller than the start offset of the error.
C31_ErrorAfterItsTokens ==
    /\ pc = "idle" /\ returned # <<>> /\ IsErr(returned[Len(returned)])
          => lexer.pending = <<>>
    /\ \A i \in 1..Len(returned) : \A j \in (i + 1)..Len(returned) :
          IsErr(returned[i]) /\ IsOk(returned[j])
              => returned[j].v[1] >= returned[i].v.location.start

-----------------------------------------------------------------------------
(* What follows a number *)

\* the character of the source at a byte offset, None at or past the end
CharAtOffset(off) ==
    IF IsBoundary(off) /\ IndexAt(off) <= Len(source)
    THEN source[IndexAt(off)]
    ELSE None

\* C32: every Int or Float token returned by next() is immediately followed
\* in the source by a whitespace character or by the end of input; a numeric
\* literal directly followed by another character that cannot continue it
\* ("7+7", "1..1") is not returned as a number followed by another token: the
\* scan fails with IllegalLiteral on that character.
C32_NumberThenBlankOrEnd ==
    /\ \A i \in 1..Len(returned) :
          IsNumber(returned[i]) =>
              LET after == CharAtOffset(returned[i].v[3])
              IN  /\ IsBoundary(returned[i].v[3])
                  /\ after = None \/ is_whitespace(after)
    /\ \A i \in 1..(Len(returned) - 1) :
          IsNumber(returned[i]) /\ IsOk(returned[i + 1])
              => \/ returned[i + 1].v[1] > returned[i].v[3]
                 \/ returned[i + 1].v[2].kind \in {"NewLine", "EOF"}
    /\ last.arm = "number" =>
          LET text == TextAtDispatch
              k == ErrorIndex(text, 1, "Start")
          IN  k > 1 /\ k <= Len(text) =>
                  /\ last.out.t = "Err"
                  /\ last.out.v.error = [kind |-> "IllegalLiteral", tok |-> text[k]]
                  /\ last.out.v.location.start = last.at
                  /\ emitted = <<>> \/ emitted[Len(emitted)][1] < last.at

\* "1..1": the scan of "1." stops on the second '.', which is the error's tok
C32_Witness ==
    /\ source = <<"1", ".", ".", "1">>
    /\ last.arm = "number" /\ last.at = 0
    /\ ErrorIndex(TextAtDispatch, 1, "Start") = 3
    /\ returned # <<>>
    /\ returned[1].t = "Err"
    /\ returned[1].v.error = [kind |-> "IllegalLiteral", tok |-> "."]

-----------------------------------------------------------------------------
(* Literals without digits *)

\* C33: every accepted Binary, Octal or Hexadecimal literal has at least one
\* digit of its radix after the radix marker; a radix prefix directly followed
\* by whitespace or the end of input ("0x", "0b", "0o") is rejected.
C33_RadixNeedsDigit ==
    \A i \in 1..Len(NumbersReturned) :
        LET tok == NumbersReturned[i].v[2]
            marker == SignLen(tok.value) + 2
        IN  tok.kind = "Int" /\ tok.base \in {"Binary", "Octal", "Hexadecimal"} =>
                \E k \in (marker + 1)..Len(tok.value) : IsDigitOf(tok.base, tok.value[k])

\* C34: the text of every Float token contains at least one decimal digit; no
\* input, a sign directly followed by a lone '.' included ("-." or "+." before
\* whitespace or the end of input), is returned as a Float without digits.
C34_FloatHasDigit ==
    \A i \in 1..Len(NumbersReturned) :
        LET tok == NumbersReturned[i].v[2]
        IN  tok.kind = "Float" => \E k \in 1..Len(tok.value) : tok.value[k] \in DecDigits

-----------------------------------------------------------------------------
(* Incomplete literals *)

\* C35: an incomplete numeric literal (one that stops in a state that cannot
\* end a literal: "1_", "0e", "1e+") gives the same IllegalLiteral error, with
\* the same tok and the same span, whether the end of input or a whitespace
\* character follows it: the error names the last character of the literal
\* and covers the literal.
C35_IncompleteLiteralError ==
    last.arm = "number" =>
        LET text == TextAtDispatch
            k == ErrorIndex(text, 1, "Start")
            after == CharAt(text, k)
        IN  k > 1 /\ (after = None \/ is_whitespace(after)) =>
                FailsAt(text[k - 1], ByteLen(SubSeq(text, 1, k - 1)))

-----------------------------------------------------------------------------
(* After an error, after the end *)

\* the result is an UnrecognizedToken error
IsUnrecognized(r) == r.t = "Err" /\ r.v.error.kind = "UnrecognizedToken"

\* the result is a NewLine token that starts before the offset
IsNewLineBefore(r, off) == r.t = "Ok" /\ r.v[2].kind = "NewLine" /\ r.v[1] < off

\* C36: an UnrecognizedToken error consumes nothing: the offending character
\* stays the current character at the error's position; every later next()
\* call either drains a NewLine that was pending when the error was returned
\* or returns the same error with the same span, and none returns EOF.
C36_UnrecognizedRepeats ==
    /\ last.arm = "unrecognized" =>
          /\ IsUnrecognized(last.out)
          /\ lexer.chr0 = last.out.v.error.tok
          /\ lexer.chr0 = CharAt(TextAtDispatch, 1)
          /\ get_pos(lexer) = last.at
          /\ last.out.v.location = [start |-> last.at, end |-> last.at]
    /\ \A i \in 1..Len(returned) : \A j \in (i + 1)..Len(returned) :
          IsUnrecognized(returned[i]) =>
              /\ ~IsEof(returned[j])
              /\ \/ returned[j] = returned[i]
                 \/ \A m \in (i + 1)..j :
                       IsNewLineBefore(returned[m], returned[i].v.location.start)

\* "\n$": the error on '$', then the pending NewLine, then the same error again
C36_Witness ==
    /\ source = <<"\n", "$">>
    /\ Len(returned) = 3
    /\ IsUnrecognized(returned[1])
    /\ returned[1].v.location = [start |-> 1, end |-> 1]
    /\ returned[2].t = "Ok" /\ returned[2].v[2].kind = "NewLine"
    /\ returned[3] = returned[1]
    /\ lexer.chr0 = "$"

\* the two-character window and its offsets
Cursor(l) == <<l.chr0, l.chr1, l.loc0, l.loc1>>

\* next() has returned the EOF token
EofReturned == \E i \in 1..Len(returned) : IsEof(returned[i])

\* C37: once next() has returned the EOF token, every later next() call
\* returns the EOF token again with the same span, and the cursor (chr0, chr1,
\* loc0, loc1) no longer changes.
C37_EofIsFinal ==
    /\ [](\A i \in 1..Len(returned) : \A j \in (i + 1)..Len(returned) :
              IsEof(returned[i]) => returned[j] = returned[i])
    /\ [][EofReturned => Cursor(lexer') = Cursor(lexer)]_vars

\* "a\n": EOF has been returned twice, the second time by a call made after
\* the first EOF
C37_Witness ==
    /\ source = <<"a", "\n">>
    /\ Len(returned) = 4
    /\ IsEof(returned[3])
    /\ returned[4] = returned[3]
    /\ last.arm = "eof"
    /\ pc = "idle"

-----------------------------------------------------------------------------
(* The shape of the pending queue *)

\* the queue is NewLine tokens only
OnlyNewLines(q) == \A k \in 1..Len(q) : q[k][2].kind = "NewLine"

\* the queue is NewLine tokens followed by one token that is not NewLine
NewLinesThenOne(q) ==
    /\ q # <<>>
    /\ OnlyNewLines(SubSeq(q, 1, Len(q) - 1))
    /\ q[Len(q)][2].kind # "NewLine"

\* C38: the dispatch step runs only when the pending queue is empty, and
\* whenever it finishes the queue holds zero or more NewLine tokens followed
\* by exactly one other token when the step succeeded and by none when it
\* failed; the queue never holds two tokens that are not NewLine.
C38_PendingShape ==
    /\ [](OnlyNewLines(lexer.pending) \/ NewLinesThenOne(lexer.pending))
    /\ [][AdvanceToken =>
             /\ lexer.pending = <<>>
             /\ IF last'.out.t = "Ok"
                THEN NewLinesThenOne(lexer'.pending)
                ELSE OnlyNewLines(lexer'.pending)]_vars

\* "\n\na": one step has queued two NewLine tokens and then the identifier
C38_Witness ==
    /\ source = <<"\n", "\n", "a">>
    /\ pc = "next"
    /\ last.out.t = "Ok"
    /\ Len(lexer.pending) = 3
    /\ NewLinesThenOne(lexer.pending)

-----------------------------------------------------------------------------
(* The panic sites *)

\* sources of every kind at once: words, numbers in every radix, operators of
\* one and two characters, comments, string and character literals
InitMixed ==
    InitOver(Strings(Alphabet, MaxLen) \cup Strings(NumDecimal, MaxLen)
             \cup Strings(NumRadix, MaxLen) \cup Strings(Doubles, MaxLen)
             \cup Strings(Quoted, MaxLen))

SpecMixed == InitMixed /\ [][Next]_vars

\* C39: for every input and every sequence of next() calls no panic site of
\* the lexer is reached: consume_expect_token never consumes at the end of
\* input, prev_chr is set when an end-of-input numeric error is built,
\* state_transition is never called with End or Error, the final match of
\* consume_number_like never takes its unreachable arm, and the debug
\* assertions on chr0 and chr1 hold.
C39_NoPanic ==
    /\ pc # "panicked"
    /\ result.t # "Panic"
    /\ last.out.t # "Panic"
    /\ \A i \in 1..Len(returned) : returned[i].t # "Panic"

\* "- 1e": the '-' at a blank was consumed as Minus, then a numeric error was
\* built at the end of input from the last character scanned
C39_Witness ==
    /\ source = <<"-", " ", "1", "e">>
    /\ Len(returned) = 2
    /\ returned[1].t = "Ok" /\ returned[1].v = <<0, Tok("Minus"), 1>>
    /\ returned[2].t = "Err"
    /\ returned[2].v.error = [kind |-> "IllegalLiteral", tok |-> "e"]

-----------------------------------------------------------------------------
(* parse_program over arbitrary token sequences *)

\* the longest fragment of tokens
MaxFragment == 3

\* the tokens of the fragments: what starts a statement, what continues one,
\* what ends a block, a line or the stream
FragmentTokens ==
    {Tok("Struct"), Tok("Return"), Tok("Let"), Ident(<<"a">>), Tok("Equal"),
     Tok("Semicolon"), Tok("RBrace"), Tok("NewLine"), Tok("EOF")}

\* `fn add ( ) -> R {`: the tokens up to the statements of a body
BlockPrefix ==
    <<Tok("Fn"), Ident(FunctionName), Tok("LParen"), Tok("RParen"),
      Tok("MinusRArrow"), Ident(ReturnType), Tok("LBrace")>>

\* every fragment at the top level of a program and in the body of a function
FragmentStreams ==
    {Spans(f) : f \in Strings(FragmentTokens, MaxFragment)}
    \cup {Spans(BlockPrefix \o f) : f \in Strings(FragmentTokens, MaxFragment)}

InitFragments ==
    /\ LexerOver({<<>>})
    /\ NoFsm
    /\ source_tokens \in FragmentStreams
    /\ parser = Parser_new(source_tokens)
    /\ ast = [t |-> "None", v |-> <<>>]

SpecFragments == InitFragments /\ [][NextParser]_vars

\* C40: parse_program terminates, returning Ok or Err, on every finite token
\* sequence: every statement that parse_statement parses successfully
\* consumes at least one token, so the statement loops of parse_program and
\* parse_block always make progress.
C40_ParseProgramTerminates ==
    ast.t # "None" =>
        /\ ast.t \in {"Ok", "Err"}
        /\ \A i \in 1..Len(source_tokens) :
              LET p == Parser_new(SubSeq(source_tokens, i, Len(source_tokens)))
                  st == parse_statement(p)
              IN  st.out.t = "Ok" => st.p # p

=============================================================================
